---------------------------- MODULE Spec2Model ----------------------------
(***************************************************************************)
(* Model of the schema-resolution and type-synthesis engine of             *)
(* cp-openapi-interface-generator: reference resolution, the recursive     *)
(* type synthesizer (toTsType / generateInterface), the enum synthesizer,  *)
(* the parameter-type registry and the declaration emitter.                *)
(*                                                                         *)
(* JavaScript strings are modelled as sequences of one-character strings,  *)
(* so that the string transforms of the code (toPascalCase, the enum key   *)
(* sanitizer, the lexical dependency scan) are computed character by       *)
(* character as the code computes them.                                    *)
(***************************************************************************)
EXTENDS Integers, Sequences, FiniteSets, TLC

(***************************************************************************)
(* Characters and JavaScript string primitives                             *)
(***************************************************************************)

\* The printable ASCII characters in code-unit order, starting at code 32
\* (code 96 is held by a placeholder: no string of the model contains it).
Ascii ==
  <<" ","!","\"","#","$","%","&","'","(",")","*","+",",","-",".","/",
    "0","1","2","3","4","5","6","7","8","9",":",";","<","=",">","?","@",
    "A","B","C","D","E","F","G","H","I","J","K","L","M","N","O","P","Q",
    "R","S","T","U","V","W","X","Y","Z","[","\\","]","^","_","BACKTICK",
    "a","b","c","d","e","f","g","h","i","j","k","l","m","n","o","p","q",
    "r","s","t","u","v","w","x","y","z","{","|","}","~">>

\* The control characters the enum value renderer escapes.
Control == <<"\t", "\n", "\r">>

Chars == {Ascii[i] : i \in DOMAIN Ascii} \cup {Control[i] : i \in DOMAIN Control}

\* UTF-16 code unit of a character (what Array.prototype.sort compares).
CharCode ==
  [c \in Chars |->
     IF c = "\t" THEN 9
     ELSE IF c = "\n" THEN 10
     ELSE IF c = "\r" THEN 13
     ELSE 31 + (CHOOSE i \in DOMAIN Ascii : Ascii[i] = c)]

\* [0-9], [A-Z], [a-z]
IsDigit(c) == c \in {"0","1","2","3","4","5","6","7","8","9"}
IsUpper(c) ==
  c \in {"A","B","C","D","E","F","G","H","I","J","K","L","M",
         "N","O","P","Q","R","S","T","U","V","W","X","Y","Z"}
IsLower(c) ==
  c \in {"a","b","c","d","e","f","g","h","i","j","k","l","m",
         "n","o","p","q","r","s","t","u","v","w","x","y","z"}
\* [a-zA-Z0-9]
IsAlnum(c) == IsDigit(c) \/ IsUpper(c) \/ IsLower(c)
\* \w, i.e. [a-zA-Z0-9_]
IsWord(c) == IsAlnum(c) \/ c = "_"
\* \s restricted to the characters of the model
IsSpace(c) == c \in {" ", "\t", "\n", "\r"}

\* String.prototype.toUpperCase on one character
ToUpperChar(c) == IF IsLower(c) THEN Ascii[CharCode[c] - 32 - 31] ELSE c

\* Whether code unit x precedes code unit y; `otherwise` when they are equal
Precedes(x, y, otherwise) == IF x < y THEN TRUE ELSE IF x > y THEN FALSE ELSE otherwise

\* Lexicographic comparison of two strings by code unit: a < b
RECURSIVE StrLess(_, _)
StrLess(a, b) ==
  IF b = <<>> THEN FALSE
  ELSE IF a = <<>> THEN TRUE
  ELSE Precedes(CharCode[Head(a)], CharCode[Head(b)], StrLess(Tail(a), Tail(b)))

\* Insertion of string x into a sorted array of strings, after its equals
RECURSIVE InsertSorted(_, _)
InsertSorted(x, s) ==
  IF s = <<>> THEN <<x>>
  ELSE IF StrLess(x, Head(s)) THEN <<x>> \o s
  ELSE <<Head(s)>> \o InsertSorted(x, Tail(s))

\* Array.prototype.sort() on an array of strings: by code unit, stable
RECURSIVE SortStrings(_)
SortStrings(s) ==
  IF s = <<>> THEN <<>>
  ELSE InsertSorted(s[Len(s)], SortStrings(SubSeq(s, 1, Len(s) - 1)))

\* Array.prototype.join
RECURSIVE Join(_, _)
Join(parts, sep) ==
  IF parts = <<>> THEN <<>>
  ELSE IF Len(parts) = 1 THEN parts[1]
  ELSE parts[1] \o sep \o Join(Tail(parts), sep)

\* String.prototype.split on a one-character separator
RECURSIVE Split(_, _)
Split(s, sep) ==
  IF \A i \in DOMAIN s : s[i] # sep THEN <<s>>
  ELSE LET k == CHOOSE i \in DOMAIN s : s[i] = sep /\ \A j \in 1..(i - 1) : s[j] # sep
       IN  <<SubSeq(s, 1, k - 1)>> \o Split(SubSeq(s, k + 1, Len(s)), sep)

StartsWith(s, p) == Len(s) >= Len(p) /\ SubSeq(s, 1, Len(p)) = p
EndsWith(s, p) == Len(s) >= Len(p) /\ SubSeq(s, Len(s) - Len(p) + 1, Len(s)) = p

\* Elements of a sequence as a set
Range(s) == {s[i] : i \in DOMAIN s}

\* Array.prototype.includes
Includes(s, x) == \E i \in DOMAIN s : s[i] = x

(***************************************************************************)
(* Identifier converters                                                   *)
(***************************************************************************)

\* name.replace(/[^a-zA-Z0-9]/g, ' ')
NonAlnumToSpace(name) == [i \in DOMAIN name |-> IF IsAlnum(name[i]) THEN name[i] ELSE " "]

\* .replace(/(?:^|\s|_)(\w)/g, (_, c) => c.toUpperCase()), scanning from
\* index i: a word character at the start is upper-cased; a separator
\* followed by a word character is replaced by the upper-cased character.
RECURSIVE UpperAfterSeparator(_, _)
UpperAfterSeparator(s, i) ==
  IF i > Len(s) THEN <<>>
  ELSE IF i = 1 /\ IsWord(s[1])
    THEN <<ToUpperChar(s[1])>> \o UpperAfterSeparator(s, 2)
  ELSE IF (IsSpace(s[i]) \/ s[i] = "_") /\ i < Len(s) /\ IsWord(s[i + 1])
    THEN <<ToUpperChar(s[i + 1])>> \o UpperAfterSeparator(s, i + 2)
  ELSE <<s[i]>> \o UpperAfterSeparator(s, i + 1)

\* .replace(/\s+/g, '')
StripSpaces(s) == SelectSeq(s, LAMBDA c : ~IsSpace(c))

\* toPascalCase of a non-empty string (the empty string throws)
toPascalCase(name) == StripSpaces(UpperAfterSeparator(NonAlnumToSpace(name), 1))

(***************************************************************************)
(* JavaScript values: the schema document is an untyped tree               *)
(***************************************************************************)

Undefined == [t |-> "undefined"]
Null == [t |-> "null"]
Str(s) == [t |-> "string", v |-> s]
Num(n) == [t |-> "number", v |-> n]
Bool(b) == [t |-> "boolean", v |-> b]
\* An array: v is the sequence of its elements
Arr(e) == [t |-> "array", v |-> e]
\* An object: v is the sequence of its <<key, value>> entries in insertion order
Obj(e) == [t |-> "object", v |-> e]

\* Property keys and type keywords of schema nodes
K == [
  type |-> <<"t","y","p","e">>,
  properties |-> <<"p","r","o","p","e","r","t","i","e","s">>,
  required |-> <<"r","e","q","u","i","r","e","d">>,
  items |-> <<"i","t","e","m","s">>,
  enumKey |-> <<"e","n","u","m">>,
  ref |-> <<"$","r","e","f">>,
  object |-> <<"o","b","j","e","c","t">>,
  array |-> <<"a","r","r","a","y">>,
  string |-> <<"s","t","r","i","n","g">>,
  number |-> <<"n","u","m","b","e","r">>,
  integer |-> <<"i","n","t","e","g","e","r">>,
  boolean |-> <<"b","o","o","l","e","a","n">>,
  Item |-> <<"I","t","e","m">>,
  brackets |-> <<"[","]">>,
  varnames |-> <<"x","-","e","n","u","m","-","v","a","r","n","a","m","e","s">>,
  components |-> <<"c","o","m","p","o","n","e","n","t","s">>,
  schemas |-> <<"s","c","h","e","m","a","s">>,
  length |-> <<"l","e","n","g","t","h">>,
  Params |-> <<"P","a","r","a","m","s">>,
  unknown |-> <<"u","n","k","n","o","w","n">>,
  any |-> <<"a","n","y">>,
  RecordStringUnknown |-> <<"R","e","c","o","r","d","<","s","t","r","i","n","g",","," ","u","n","k","n","o","w","n",">">>,
  path |-> <<"p","a","t","h">>,
  query |-> <<"q","u","e","r","y">>,
  void |-> <<"v","o","i","d">>,
  Request |-> <<"R","e","q","u","e","s","t">>,
  Response |-> <<"R","e","s","p","o","n","s","e">>,
  PathParams |-> <<"P","a","t","h","P","a","r","a","m","s">>,
  QueryParams |-> <<"Q","u","e","r","y","P","a","r","a","m","s">> ]

\* The keywords the declarations start with
KW == [
  export |-> <<"e","x","p","o","r","t"," ">>,
  interface |-> <<"i","n","t","e","r","f","a","c","e"," ">>,
  type |-> <<"t","y","p","e"," ">>,
  enum |-> <<"e","n","u","m"," ">> ]

\* The decimal digits, by value
Digits == <<"0","1","2","3","4","5","6","7","8","9">>

\* Decimal digits of a natural number
RECURSIVE NatToString(_)
NatToString(n) ==
  (IF n < 10 THEN <<>> ELSE NatToString(n \div 10)) \o <<Digits[(n % 10) + 1]>>

\* Parse a string of decimal digits (an array index); -1 when it is none
RECURSIVE DigitsValue(_, _)
DigitsValue(s, acc) ==
  IF s = <<>> THEN acc
  ELSE IF ~IsDigit(Head(s)) THEN -1
  ELSE DigitsValue(Tail(s), acc * 10 + (CHOOSE d \in 0..9 : Digits[d + 1] = Head(s)))

\* A function object: v is its name
Fn(name) == [t |-> "function", v |-> name]


\* o[k] when o has no own property k: the member every object, array,
\* string, number and boolean inherits from Object.prototype (some of
\* them), or undefined
Inherited(k) ==
  IF k \in { <<"c","o","n","s","t","r","u","c","t","o","r">>,
             <<"t","o","S","t","r","i","n","g">>,
             <<"v","a","l","u","e","O","f">>,
             <<"h","a","s","O","w","n","P","r","o","p","e","r","t","y">> }
    THEN Fn(k)
    ELSE Undefined

\* The array index the key k denotes, or -1
IndexOf(k) ==
  IF k = <<>> THEN -1
  ELSE IF NatToString(DigitsValue(k, 0)) = k THEN DigitsValue(k, 0)
  ELSE -1

\* o[k] for a string key k: an own property of an object, an element or the
\* length of an array or of a string, an inherited member, undefined
\* otherwise (and for o undefined or null under ?.)
Get(o, k) ==
  IF o.t = "object" THEN
    IF \E i \in DOMAIN o.v : o.v[i][1] = k
    THEN o.v[CHOOSE i \in DOMAIN o.v : o.v[i][1] = k][2]
    ELSE Inherited(k)
  ELSE IF o.t \in {"array", "string"} THEN
    IF IndexOf(k) >= 0 /\ IndexOf(k) < Len(o.v)
      THEN (IF o.t = "array" THEN o.v[IndexOf(k) + 1] ELSE Str(<<o.v[IndexOf(k) + 1]>>))
    ELSE IF k = K.length THEN Num(Len(o.v))
    ELSE Inherited(k)
  ELSE IF o.t \in {"number", "boolean", "function"} THEN Inherited(k)
  ELSE Undefined

\* ToBoolean
Truthy(x) ==
  CASE x.t = "undefined" -> FALSE
    [] x.t = "null" -> FALSE
    [] x.t = "string" -> x.v # <<>>
    [] x.t = "number" -> x.v # 0
    [] x.t = "boolean" -> x.v
    [] OTHER -> TRUE

\* String(x) for the scalar values of the model
JsString(x) ==
  CASE x.t = "string" -> x.v
    [] x.t = "number" -> IF x.v < 0 THEN <<"-">> \o NatToString(-x.v) ELSE NatToString(x.v)
    [] x.t = "boolean" -> IF x.v THEN <<"t","r","u","e">> ELSE <<"f","a","l","s","e">>
    [] x.t = "null" -> <<"n","u","l","l">>
    [] OTHER -> <<"u","n","d","e","f","i","n","e","d">>

\* A string value with the given text: x === 'text'
IsStr(x, text) == x.t = "string" /\ x.v = text

(***************************************************************************)
(* Reference resolver                                                      *)
(***************************************************************************)

\* A thrown Error is modelled by a result whose err names the throw site;
\* NoError is a normal return.
NoError == "none"

\* parts.reduce((acc, part) => acc?.[part], spec)
RECURSIVE Walk(_, _)
Walk(acc, parts) ==
  IF parts = <<>> THEN acc
  ELSE Walk(Get(acc, Head(parts)), Tail(parts))

\* resolveRef(ref, spec): the schema node the pointer designates, or a throw
resolveRef(ref, spec) ==
  IF ~Truthy(ref) \/ ref.t # "string"
    THEN [err |-> "InvalidRef", val |-> Undefined]
  ELSE IF ~StartsWith(ref.v, <<"#", "/">>)
    THEN [err |-> "InvalidRefFormat", val |-> Undefined]
  ELSE LET parts == Split(SubSeq(ref.v, 3, Len(ref.v)), "/")
           result == Walk(spec, parts)
       IN  IF result = Undefined
             THEN [err |-> "UnresolvedRef", val |-> Undefined]
             ELSE [err |-> NoError, val |-> result]

\* getSchemaNameFromRef(ref): the terminal segment of the pointer, or a throw
getSchemaNameFromRef(ref) ==
  IF ~Truthy(ref) \/ ref.t # "string"
    THEN [err |-> "InvalidRef", val |-> <<>>]
  ELSE LET parts == Split(ref.v, "/")
           name == parts[Len(parts)]
       IN  IF name = <<>>
             THEN [err |-> "NoSchemaName", val |-> <<>>]
             ELSE [err |-> NoError, val |-> name]

(***************************************************************************)
(* Enum synthesizer                                                        *)
(***************************************************************************)

\* /^[a-zA-Z_][a-zA-Z0-9_]*$/.test(name)
IsIdentifier(name) ==
  /\ name # <<>>
  /\ IsWord(name[1]) /\ ~IsDigit(name[1])
  /\ \A i \in DOMAIN name : IsWord(name[i])

\* The loop of validateEnumVarNames over the remaining names
RECURSIVE ValidateNames(_, _, _)

\* A loop that keeps the names accepted before the first rejected one
ValidateNamesPartially(names, usedNames, validNames) ==
  IF names = <<>> THEN validNames
  ELSE LET name == Head(names)
       IN  IF name.t = "string" /\ IsIdentifier(name.v) /\ name.v \notin usedNames
             THEN ValidateNames(Tail(names), usedNames \cup {name.v}, Append(validNames, name.v))
             ELSE validNames

ValidateNames(names, usedNames, validNames) ==
  IF names = <<>> THEN validNames
  ELSE LET name == Head(names)
       IN  IF name.t = "string" /\ IsIdentifier(name.v) /\ name.v \notin usedNames
             THEN ValidateNames(Tail(names), usedNames \cup {name.v}, Append(validNames, name.v))
             ELSE <<>>

\* validateEnumVarNames(varNames, enumValues): the names, or [] for the fallback
validateEnumVarNames(varNames, enumValues) ==
  IF varNames.t # "array" \/ Len(varNames.v) # Len(enumValues) THEN <<>>
  ELSE ValidateNames(varNames.v, {}, <<>>)

\* .replace(/[^a-zA-Z0-9_]/g, '_')
NonWordToUnderscore(str) == [i \in DOMAIN str |-> IF IsWord(str[i]) THEN str[i] ELSE "_"]

\* .replace(/^_+|_+$/g, '')
TrimUnderscores(str) ==
  LET keep == {i \in DOMAIN str : str[i] # "_"}
  IN  IF keep = {} THEN <<>>
      ELSE LET lo == CHOOSE i \in keep : \A j \in keep : i <= j
               hi == CHOOSE i \in keep : \A j \in keep : j <= i
           IN  SubSeq(str, lo, hi)

\* A disambiguation that appends one suffix and does not look again
UniqueKeyOnce(uniqueKey, sanitized, counter, usedKeys) ==
  IF uniqueKey \in usedKeys
    THEN sanitized \o <<"_">> \o NatToString(counter)
    ELSE uniqueKey

\* The while loop of sanitizeEnumKey: the first of sanitized, sanitized_1,
\* sanitized_2, ... that is not in usedKeys
RECURSIVE UniqueKey(_, _, _, _)
UniqueKey(uniqueKey, sanitized, counter, usedKeys) ==
  IF uniqueKey \in usedKeys
    THEN UniqueKey(sanitized \o <<"_">> \o NatToString(counter), sanitized, counter + 1, usedKeys)
    ELSE uniqueKey

\* sanitizeEnumKey(value, usedKeys): the key; the caller's set gains it
sanitizeEnumKey(value, usedKeys) ==
  LET Unique(sanitized) == UniqueKey(sanitized, sanitized, 1, usedKeys)
      NonEmpty(prefixed) ==
        Unique(IF prefixed = <<>> THEN <<"V","A","L","U","E">> ELSE prefixed)
      Prefixed(trimmed) ==
        NonEmpty(IF trimmed # <<>> /\ IsDigit(trimmed[1]) THEN <<"_">> \o trimmed ELSE trimmed)
  IN  Prefixed(TrimUnderscores(NonWordToUnderscore(JsString(value))))

\* The five chained replaces of getEnumValueString on one character
EscapeChar(c) ==
  CASE c = "\\" -> <<"\\", "\\">>
    [] c = "'" -> <<"\\", "'">>
    [] c = "\n" -> <<"\\", "n">>
    [] c = "\r" -> <<"\\", "r">>
    [] c = "\t" -> <<"\\", "t">>
    [] OTHER -> <<c>>

RECURSIVE EscapeString(_)
EscapeString(str) ==
  IF str = <<>> THEN <<>> ELSE EscapeChar(Head(str)) \o EscapeString(Tail(str))

\* A rendering that lets null and undefined through as literals
RenderAnyValue(value) ==
  IF value.t = "string"
    THEN [err |-> NoError, val |-> <<"'">> \o EscapeString(JsString(value)) \o <<"'">>]
    ELSE [err |-> NoError, val |-> JsString(value)]

\* getEnumValueString(value): the rendered literal, or a throw for null/undefined
getEnumValueString(value) ==
  IF value.t \in {"null", "undefined"}
    THEN [err |-> "InvalidEnumValue", val |-> <<>>]
  ELSE IF value.t \in {"number", "boolean"}
    THEN [err |-> NoError, val |-> JsString(value)]
  ELSE [err |-> NoError, val |-> <<"'">> \o EscapeString(JsString(value)) \o <<"'">>]


ExportPrefix(exportMain) == IF exportMain THEN KW.export ELSE <<>>

\* schema.enum && Array.isArray(schema.enum) && schema.enum.length > 0
HasEnum(schema) ==
  LET e == Get(schema, K.enumKey) IN e.t = "array" /\ Len(e.v) > 0

\* The forEach of generateEnum from member index on: the member keys and the
\* rendered lines, or the throw of the first member that cannot be rendered
RECURSIVE EnumMembers(_, _, _, _, _)
EnumMembers(values, varNames, index, usedKeys, acc) ==
  IF index > Len(values) THEN acc
  ELSE LET value == values[index]
           comma == IF index < Len(values) THEN <<",">> ELSE <<>>
           fromVarNames == index <= Len(varNames)
           Member(key, enumValue) ==
             IF enumValue.err # NoError
               THEN [err |-> "EnumGenerationFailed: " \o enumValue.err,
                     keys |-> acc.keys, lines |-> acc.lines]
               ELSE EnumMembers(values, varNames, index + 1,
                      IF fromVarNames THEN usedKeys ELSE usedKeys \cup {key},
                      [err |-> NoError,
                       keys |-> Append(acc.keys, key),
                       lines |-> Append(acc.lines,
                                   <<" ", " ">> \o key \o <<" ", "=", " ">>
                                     \o enumValue.val \o comma)])
       IN  Member(IF fromVarNames THEN varNames[index] ELSE sanitizeEnumKey(value, usedKeys),
                  getEnumValueString(value))

\* generateEnum(name, schema, exportMain): the enum declaration text, or a throw
generateEnum(name, schema, exportMain) ==
  IF ~HasEnum(schema) THEN [err |-> "InvalidEnumSchema", code |-> <<>>, keys |-> <<>>]
  ELSE LET first == ExportPrefix(exportMain) \o KW.enum \o name \o <<" ", "{">>
           Declaration(m) ==
             IF m.err # NoError THEN [err |-> m.err, code |-> <<>>, keys |-> m.keys]
             ELSE [err |-> NoError,
                   code |-> Join(Append(m.lines, <<"}">>), <<"\n">>),
                   keys |-> m.keys]
           Members(values) ==
             EnumMembers(values, validateEnumVarNames(Get(schema, K.varnames), values),
                         1, {}, [err |-> NoError, keys |-> <<>>, lines |-> <<first>>])
       IN  Declaration(Members(Get(schema, K.enumKey).v))

(***************************************************************************)
(* Type synthesizer                                                        *)
(*                                                                         *)
(* The module state the synthesizer mutates is threaded through the        *)
(* recursion as a record g:                                                *)
(*   seen    globalSeenTypes (a Set of names)                              *)
(*   defs    generatedTypeDefinitions, as <<name, code>> entries in        *)
(*           insertion order                                               *)
(*   hashes  enumValueHashToTypeName (a Map from hash to name)             *)
(*   nested  the nestedInterfaces array of the current top-level call      *)
(*   made    history: the <<name, code>> of every declaration in the order *)
(*           the run materialized them                                     *)
(*   enums   history: <<value set, name>> for every enumeration schema the *)
(*           run resolved to a declaration name                            *)
(*   err     NoError, or the Error that is propagating                     *)
(***************************************************************************)

\* Deepest nesting of synthesizer calls before the engine's call stack
\* overflows (a RangeError), scaled down to the model.
MaxStackDepth == 7


\* One string of JSON.stringify: quoted, with quote, backslash and control
\* characters escaped
JsonChar(c) ==
  CASE c = "\"" -> <<"\\", "\"">>
    [] c = "\\" -> <<"\\", "\\">>
    [] c = "\n" -> <<"\\", "n">>
    [] c = "\r" -> <<"\\", "r">>
    [] c = "\t" -> <<"\\", "t">>
    [] OTHER -> <<c>>

RECURSIVE JsonEscape(_)
JsonEscape(str) == IF str = <<>> THEN <<>> ELSE JsonChar(Head(str)) \o JsonEscape(Tail(str))

\* JSON.stringify of a scalar
JsonScalar(x) ==
  IF x.t = "string" THEN <<"\"">> \o JsonEscape(x.v) \o <<"\"">> ELSE JsString(x)

\* Insertion of value x into an array sorted by String(.), after its equals
RECURSIVE InsertValue(_, _)
InsertValue(x, s) ==
  IF s = <<>> THEN <<x>>
  ELSE IF StrLess(JsString(x), JsString(Head(s))) THEN <<x>> \o s
  ELSE <<Head(s)>> \o InsertValue(x, Tail(s))

\* [...enumValues].sort(): by the string form of each value, stable
RECURSIVE SortValues(_)
SortValues(s) ==
  IF s = <<>> THEN <<>>
  ELSE InsertValue(s[Len(s)], SortValues(SubSeq(s, 1, Len(s) - 1)))

\* getEnumValuesHash(enumValues) == JSON.stringify([...enumValues].sort())
getEnumValuesHash(enumValues) ==
  LET Stringify(sortedValues) ==
        <<"[">> \o Join([i \in DOMAIN sortedValues |-> JsonScalar(sortedValues[i])], <<",">>)
          \o <<"]">>
  IN  Stringify(SortValues(enumValues))

\* generatedTypeDefinitions[typeName] = code
PutDefinition(defs, typeName, code) ==
  IF \E i \in DOMAIN defs : defs[i][1] = typeName
    THEN [i \in DOMAIN defs |-> IF defs[i][1] = typeName THEN <<typeName, code>> ELSE defs[i]]
    ELSE Append(defs, <<typeName, code>>)

\* The two statements that follow every nested generateInterface call:
\*   generatedTypeDefinitions[typeName] = code; nestedInterfaces.push(code)
Register(g, typeName, code) ==
  [g EXCEPT !.defs = PutDefinition(@, typeName, code),
            !.nested = Append(@, code),
            !.made = Append(@, <<typeName, code>>)]

\* History: the enumeration `schema` was resolved to the name typeName
NoteEnum(g, schema, typeName) ==
  IF HasEnum(schema)
    THEN [g EXCEPT !.enums = @ \cup {<<Range(Get(schema, K.enumKey).v), typeName>>}]
    ELSE g

\* A throw: the state as mutated so far, with the error set
Throw(g, e) == [g EXCEPT !.err = e]

\* `${prop}${optional}: ${tsType};` indented by two spaces
MemberLine(prop, optional, tsType) ==
  <<" ", " ">> \o prop \o (IF optional THEN <<"?">> ELSE <<>>) \o <<":", " ">> \o tsType \o <<";">>

\* schema.required?.includes(prop)
IsRequired(schema, prop) ==
  LET r == Get(schema, K.required)
  IN  r.t = "array" /\ Includes(r.v, Str(prop))

\* Object.entries(schema.properties || {})
PropertyEntries(schema) ==
  LET ps == Get(schema, K.properties)
  IN  IF ps.t = "object" THEN ps.v ELSE <<>>

RECURSIVE toTsType(_, _, _, _, _)
RECURSIVE generateInterface(_, _, _, _, _, _)
RECURSIVE SynthesizeDeclaration(_, _, _, _, _, _)
RECURSIVE InterfaceMembers(_, _, _, _, _, _, _)

\* The block below without its globalSeenTypes guard
SynthesizeUnguarded(typeName, schema, spec, g, exportMain, depth) ==
  LET Store(r) ==
        IF r.g.err # NoError THEN r.g
        ELSE NoteEnum(Register(r.g, typeName, r.code), schema, typeName)
  IN  Store(generateInterface(typeName, schema, spec,
                              [g EXCEPT !.seen = @ \cup {typeName}], exportMain, depth + 1))

\* The block below with globalSeenTypes.add(typeName) moved behind the call
\* of generateInterface
SynthesizeMarkingLate(typeName, schema, spec, g, exportMain, depth) ==
  LET Store(r) ==
        IF r.g.err # NoError THEN r.g
        ELSE NoteEnum(Register([r.g EXCEPT !.seen = @ \cup {typeName}], typeName, r.code),
                      schema, typeName)
  IN  IF typeName \in g.seen THEN NoteEnum(g, schema, typeName)
      ELSE Store(generateInterface(typeName, schema, spec, g, exportMain, depth + 1))

\* The guarded block shared by the branches of toTsType and by the array
\* branch of generateInterface:
\*   if (!globalSeenTypes.has(typeName)) {
\*     globalSeenTypes.add(typeName);
\*     const code = generateInterface(typeName, schema, spec, nested, exportMain);
\*     generatedTypeDefinitions[typeName] = code; nestedInterfaces.push(code);
\*   }
SynthesizeDeclaration(typeName, schema, spec, g, exportMain, depth) ==
  LET Store(r) ==
        IF r.g.err # NoError THEN r.g
        ELSE NoteEnum(Register(r.g, typeName, r.code), schema, typeName)
  IN  IF typeName \in g.seen THEN NoteEnum(g, schema, typeName)
      ELSE Store(generateInterface(typeName, schema, spec,
                                   [g EXCEPT !.seen = @ \cup {typeName}],
                                   exportMain, depth + 1))

\* The final switch of toTsType on value.type
PrimitiveType(ty) ==
  IF IsStr(ty, K.integer) \/ IsStr(ty, K.number) THEN K.number
  ELSE IF IsStr(ty, K.string) THEN K.string
  ELSE IF IsStr(ty, K.boolean) THEN K.boolean
  ELSE K.any

\* The type string a branch of toTsType returns once its declaration is
\* there; a throw in the declaration passes through
Declared(ty, g2) ==
  IF g2.err # NoError THEN [ty |-> <<>>, g |-> g2] ELSE [ty |-> ty, g |-> g2]

\* enumValueHashToTypeName.set(enumHash, typeName) after the declaration
TrackEnum(enumHash, typeName, g2) ==
  IF g2.err # NoError THEN [ty |-> <<>>, g |-> g2]
  ELSE [ty |-> typeName, g |-> [g2 EXCEPT !.hashes = (enumHash :> typeName) @@ @]]

\* The inline enum branch of toTsType: enumHash is
\* getEnumValuesHash(value.enum) and typeName is toPascalCase(name)
EnumBranch(value, enumHash, typeName, spec, g, depth) ==
  IF enumHash \in DOMAIN g.hashes
    THEN [ty |-> g.hashes[enumHash], g |-> NoteEnum(g, value, g.hashes[enumHash])]
  ELSE IF typeName \in g.seen THEN [ty |-> typeName, g |-> NoteEnum(g, value, typeName)]
  ELSE TrackEnum(enumHash, typeName,
                 SynthesizeDeclaration(typeName, value, spec, g, TRUE, depth))

\* The $ref branch of toTsType and the items.$ref branch of its array case
\* (suffix is []): r is resolveRef(ref, spec), n is getSchemaNameFromRef(ref);
\* a falsy resolved node gives `otherwise`
RefBranch(r, n, suffix, otherwise, spec, g, depth) ==
  IF r.err # NoError THEN [ty |-> <<>>, g |-> Throw(g, r.err)]
  ELSE IF ~Truthy(r.val) THEN [ty |-> otherwise, g |-> g]
  ELSE IF n.err # NoError THEN [ty |-> <<>>, g |-> Throw(g, n.err)]
  ELSE Declared(n.val \o suffix,
                SynthesizeDeclaration(n.val, r.val, spec, g, TRUE, depth))

\* The nested-object branches of toTsType: a declaration that is not
\* exported; typeName is toPascalCase(`${name}Item`)
ItemBranch(schema, typeName, suffix, spec, g, depth) ==
  Declared(typeName \o suffix,
           SynthesizeDeclaration(typeName, schema, spec, g, FALSE, depth))

\* The cases of toTsType below its array case
ObjectOrPrimitive(value, name, spec, g, depth) ==
  IF IsStr(Get(value, K.type), K.object) \/ Truthy(Get(value, K.properties)) THEN
    IF IsStr(Get(value, K.type), K.object) /\ ~Truthy(Get(value, K.properties))
      THEN [ty |-> K.RecordStringUnknown, g |-> g]
      ELSE ItemBranch(value, toPascalCase(name \o K.Item), <<>>, spec, g, depth)
  ELSE [ty |-> PrimitiveType(Get(value, K.type)), g |-> g]

\* The items.$ref branch of the array case: an unresolved reference throws;
\* a falsy node leaves the array case for the cases below it
ItemsRefBranch(r, value, name, spec, g, depth) ==
  IF r.g.err = NoError /\ r.ty = <<>>
    THEN ObjectOrPrimitive(value, name, spec, g, depth)
    ELSE r

\* `${items?.type ?? 'any'}[]`
PlainArray(ity) ==
  (IF ity.t \in {"undefined", "null"} THEN K.any ELSE JsString(ity)) \o K.brackets

\* The array case of toTsType: items is value.items
ArrayBranch(items, value, name, spec, g, depth) ==
  IF Truthy(Get(items, K.ref))
    THEN ItemsRefBranch(RefBranch(resolveRef(Get(items, K.ref), spec),
                                  getSchemaNameFromRef(Get(items, K.ref)),
                                  K.brackets, <<>>, spec, g, depth),
                        value, name, spec, g, depth)
  ELSE IF IsStr(Get(items, K.type), K.object) \/ Truthy(Get(items, K.properties))
    THEN ItemBranch(items, toPascalCase(name \o K.Item), K.brackets, spec, g, depth)
  ELSE [ty |-> PlainArray(Get(items, K.type)), g |-> g]

\* toTsType(value, name, nestedInterfaces, spec): the type string, with the
\* declarations it registered
toTsType(value, name, spec, g, depth) ==
  IF depth > MaxStackDepth THEN [ty |-> <<>>, g |-> Throw(g, "StackOverflow")]
  ELSE IF Truthy(Get(value, K.ref))
    THEN RefBranch(resolveRef(Get(value, K.ref), spec),
                   getSchemaNameFromRef(Get(value, K.ref)),
                   <<>>, K.unknown, spec, g, depth)
  ELSE IF HasEnum(value)
    THEN EnumBranch(value, getEnumValuesHash(Get(value, K.enumKey).v), toPascalCase(name),
                    spec, g, depth)
  ELSE IF IsStr(Get(value, K.type), K.array)
    THEN ArrayBranch(Get(value, K.items), value, name, spec, g, depth)
  ELSE ObjectOrPrimitive(value, name, spec, g, depth)

\* The for loop of generateInterface over the property entries from index i
InterfaceMembers(name, schema, entries, i, spec, acc, depth) ==
  IF i > Len(entries) \/ acc.g.err # NoError THEN acc
  ELSE LET prop == entries[i][1]
           Member(r) ==
             InterfaceMembers(name, schema, entries, i + 1, spec,
               [g |-> r.g,
                lines |-> Append(acc.lines,
                                 MemberLine(prop, ~IsRequired(schema, prop), r.ty))],
               depth)
       IN  Member(toTsType(entries[i][2], name \o toPascalCase(prop), spec, acc.g,
                           depth + 1))

\* `${exportMain ? 'export ' : ''}type ${name} = ${target};`
TypeAlias(name, target, exportMain) ==
  ExportPrefix(exportMain) \o KW.type \o name \o <<" ", "=", " ">> \o target \o <<";">>

\* schema.items.$ref ? resolveRef(schema.items.$ref, spec) : schema.items
ItemSchema(items, spec) ==
  IF Truthy(Get(items, K.ref))
    THEN resolveRef(Get(items, K.ref), spec)
    ELSE [err |-> NoError, val |-> items]

\* The alias the array case of generateInterface returns once the item
\* declaration is there
AliasDeclared(code, g2) ==
  IF g2.err # NoError THEN [code |-> <<>>, g |-> g2] ELSE [code |-> code, g |-> g2]

\* The array case of generateInterface
ArrayAlias(name, itemName, itemSchema, spec, g, exportMain, depth) ==
  IF itemSchema.err # NoError THEN [code |-> <<>>, g |-> Throw(g, itemSchema.err)]
  ELSE IF Truthy(itemSchema.val)
    THEN AliasDeclared(TypeAlias(name, itemName \o K.brackets, exportMain),
                       SynthesizeDeclaration(itemName, itemSchema.val, spec, g, FALSE, depth))
  ELSE [code |-> TypeAlias(name, K.unknown \o K.brackets, exportMain), g |-> g]

\* generateInterface(name, schema, spec, nestedInterfaces, exportMain): the
\* declaration text for `name`, with the declarations it registered
generateInterface(name, schema, spec, g, exportMain, depth) ==
  IF depth > MaxStackDepth THEN [code |-> <<>>, g |-> Throw(g, "StackOverflow")]
  ELSE IF ~Truthy(schema)
          \/ (~Truthy(Get(schema, K.properties)) /\ ~Truthy(Get(schema, K.type))
              /\ ~Truthy(Get(schema, K.enumKey)))
    THEN [code |-> TypeAlias(name, K.unknown, exportMain), g |-> g]
  ELSE IF HasEnum(schema) THEN
    LET Enum(e) ==
          IF e.err # NoError THEN [code |-> <<>>, g |-> Throw(g, e.err)]
          ELSE [code |-> e.code, g |-> g]
    IN  Enum(generateEnum(name, schema, exportMain))
  ELSE IF IsStr(Get(schema, K.type), K.array) /\ Truthy(Get(schema, K.items)) THEN
    ArrayAlias(name, toPascalCase(name \o K.Item), ItemSchema(Get(schema, K.items), spec),
               spec, g, exportMain, depth)
  ELSE
    LET first == ExportPrefix(exportMain) \o KW.interface \o name \o <<" ", "{">>
        Members(m) ==
          IF m.g.err # NoError THEN [code |-> <<>>, g |-> m.g]
          ELSE [code |-> Join(Append(m.lines, <<"}">>), <<"\n">>), g |-> m.g]
    IN  Members(InterfaceMembers(name, schema, PropertyEntries(schema), 1, spec,
                                 [g |-> g, lines |-> <<first>>], depth))

(***************************************************************************)
(* Parameter-type registry                                                 *)
(*                                                                         *)
(* A parameter set (Record<string, string>) is the sequence of its         *)
(* <<key, type>> entries in insertion order; parameterTypes (a Map from    *)
(* type name to signature) is the sequence of its <<name, signature>>      *)
(* entries in insertion order.                                             *)
(***************************************************************************)

MAX_PARAM_NAME_COMBINATION == 3


\* Object.keys(params)
Keys(params) == [i \in DOMAIN params |-> params[i][1]]

\* params[key]
ParamType(params, key) == params[CHOOSE i \in DOMAIN params : params[i][1] = key][2]

\* createParamSignature(params)
createParamSignature(params) ==
  LET Signature(sortedKeys) ==
        Join([i \in DOMAIN sortedKeys |->
                sortedKeys[i] \o <<":">> \o ParamType(params, sortedKeys[i])], <<"|">>)
  IN  Signature(SortStrings(Keys(params)))

\* key.replace(/\?$/, '')
StripOptionalMark(key) ==
  IF key # <<>> /\ key[Len(key)] = "?" THEN SubSeq(key, 1, Len(key) - 1) ELSE key

\* parameterTypes.set(typeName, signature)
MapSet(entries, key, value) ==
  IF \E i \in DOMAIN entries : entries[i][1] = key
    THEN [i \in DOMAIN entries |-> IF entries[i][1] = key THEN <<key, value>> ELSE entries[i]]
    ELSE Append(entries, <<key, value>>)

\* The name built from the keys in the order the caller listed them
UnsortedParamTypeName(params, paramType, fallbackName) ==
  LET Name(keys) ==
        IF Len(keys) >= 1 /\ Len(keys) <= MAX_PARAM_NAME_COMBINATION
          THEN Join([i \in DOMAIN keys |-> toPascalCase(StripOptionalMark(keys[i]))], <<>>)
                 \o toPascalCase(paramType) \o K.Params
        ELSE fallbackName
  IN  Name(Keys(params))

\* The name getReusableParamTypeName builds when no entry has the signature
NewParamTypeName(params, paramType, fallbackName) ==
  LET Name(keys) ==
        IF Len(keys) = 1
          THEN toPascalCase(StripOptionalMark(keys[1])) \o toPascalCase(paramType) \o K.Params
        ELSE IF Len(keys) > 1 /\ Len(keys) <= MAX_PARAM_NAME_COMBINATION
          THEN Join([i \in DOMAIN keys |-> toPascalCase(StripOptionalMark(keys[i]))], <<>>)
                 \o toPascalCase(paramType) \o K.Params
        ELSE fallbackName
  IN  Name(SortStrings(Keys(params)))

\* The first entry of parameterTypes whose signature is `signature`, or 0
FirstWithSignature(parameterTypes, signature) ==
  IF \E i \in DOMAIN parameterTypes : parameterTypes[i][2] = signature
    THEN CHOOSE i \in DOMAIN parameterTypes :
           /\ parameterTypes[i][2] = signature
           /\ \A j \in 1..(i - 1) : parameterTypes[j][2] # signature
    ELSE 0

\* The loop over parameterTypes, and the parameterTypes.set that follows
\* it when no entry has the signature; typeName is the name a new entry gets
FindOrSet(signature, typeName, parameterTypes) ==
  IF FirstWithSignature(parameterTypes, signature) # 0
    THEN [name |-> parameterTypes[FirstWithSignature(parameterTypes, signature)][1],
          parameterTypes |-> parameterTypes]
    ELSE [name |-> typeName, parameterTypes |-> MapSet(parameterTypes, typeName, signature)]

\* getReusableParamTypeName(params, paramType, fallbackName, parameterTypes):
\* the name returned and the map as the call leaves it
getReusableParamTypeName(params, paramType, fallbackName, parameterTypes) ==
  FindOrSet(createParamSignature(params),
            NewParamTypeName(params, paramType, fallbackName), parameterTypes)

\* generateParamsInterface(params, typeName, exportInterface)
generateParamsInterface(params, typeName, exportInterface) ==
  IF Len(params) = 0 THEN <<"{", "}">>
  ELSE Join(<<ExportPrefix(exportInterface) \o KW.interface \o typeName \o <<" ", "{">>>>
              \o [i \in DOMAIN params |->
                    <<" ", " ">> \o params[i][1] \o <<":", " ">> \o params[i][2] \o <<";">>]
              \o <<<<"}">>>>,
            <<"\n">>)

(***************************************************************************)
(* Driver: the first pass over the operations                              *)
(*                                                                         *)
(* The record g of the synthesizer is extended with                        *)
(*   allTypes        the array of declaration texts of the run             *)
(*   parameterTypes  the parameter-type registry                           *)
(***************************************************************************)

\* The index after the longest run of characters of class cls ("word",
\* "alnum" or "space") of code that starts at index i
InClass(c, cls) ==
  CASE cls = "word" -> IsWord(c)
    [] cls = "alnum" -> IsAlnum(c)
    [] cls = "space" -> IsSpace(c)

RunEnd(code, i, cls) ==
  CHOOSE j \in i..(Len(code) + 1) :
    /\ \A k \in i..(j - 1) : InClass(code[k], cls)
    /\ j = Len(code) + 1 \/ ~InClass(code[j], cls)

\* The maximal run of \w characters of code that starts at index i
WordRun(code, i) == IF i > Len(code) THEN <<>> ELSE SubSeq(code, i, RunEnd(code, i, "word") - 1)

\* Whether text occurs in code at index i
OccursAt(code, i, text) ==
  /\ i >= 1 /\ i + Len(text) - 1 <= Len(code)
  /\ \A k \in DOMAIN text : code[i + k - 1] = text[k]

\* The index after the run of \s characters of code that starts at index i
SkipSpaces(code, i) == IF i > Len(code) THEN i ELSE RunEnd(code, i, "space")

DeclKeywords == <<<<"i","n","t","e","r","f","a","c","e">>, <<"t","y","p","e">>, <<"e","n","u","m">>>>

\* The index after the separator that starts at index j: one space (strict)
\* or \s+; 0 when there is no separator at j
AfterSeparator(code, j, strict) ==
  IF strict THEN (IF j <= Len(code) /\ code[j] = " " THEN j + 1 ELSE 0)
  ELSE LET Past(k) == IF k > j THEN k ELSE 0
       IN  Past(SkipSpaces(code, j))

\* (?:interface|type|enum)<sep>(\w+) anchored at index i, where <sep> is one
\* space (strict) or \s+; the captured name, or <<>> when there is no match
KeywordNameAt(code, i, strict) ==
  LET NameFrom(start) == IF start = 0 THEN <<>> ELSE WordRun(code, start)
      After(ks) ==
        IF ks = {} THEN <<>>
        ELSE NameFrom(AfterSeparator(code, i + Len(DeclKeywords[CHOOSE k \in ks : TRUE]),
                                     strict))
  IN  After({k \in DOMAIN DeclKeywords : OccursAt(code, i, DeclKeywords[k])})

\* The optional export prefix followed by the keyword and the name, anchored
\* at index i: the regular expression tries the prefix first
DeclarationNameAt(code, i, strict) ==
  LET Either(withExport) ==
        IF withExport # <<>> THEN withExport ELSE KeywordNameAt(code, i, strict)
      WithExport(afterExport) ==
        IF afterExport = 0 THEN <<>> ELSE KeywordNameAt(code, afterExport, strict)
  IN  Either(IF OccursAt(code, i, <<"e","x","p","o","r","t">>)
               THEN WithExport(AfterSeparator(code, i + 6, strict))
               ELSE <<>>)

\* code.match(<declaration pattern>)?.[1]: the name captured by the leftmost
\* match, or <<>> when nothing matches
DeclarationName(code, strict) ==
  LET NameAt(i) == DeclarationNameAt(code, i, strict)
      Leftmost(at) == IF at = {} THEN 0 ELSE CHOOSE i \in at : \A j \in at : i <= j
      Captured(name) ==
        IF name # <<>> THEN name
        ELSE LET Found(i) == IF i = 0 THEN <<>> ELSE NameAt(i)
             IN  Found(Leftmost({i \in DOMAIN code : NameAt(i) # <<>>}))
  IN  Captured(IF code = <<>> THEN <<>> ELSE NameAt(1))

\* typeCode.match(/(?:export )?(?:interface|type|enum) (\w+)/)?.[1]
NestedTypeName(typeCode) == DeclarationName(typeCode, TRUE)

\* getRequestTypeName(requestBody, operationId)
getRequestTypeName(requestBody, operationId) ==
  IF ~Truthy(requestBody) THEN [err |-> NoError, val |-> K.void]
  ELSE IF Truthy(Get(requestBody, K.ref)) THEN getSchemaNameFromRef(Get(requestBody, K.ref))
  ELSE [err |-> NoError, val |-> toPascalCase(operationId) \o K.Request]

\* getResponseTypeName(responseBody, operationId)
getResponseTypeName(responseBody, operationId) ==
  IF ~Truthy(responseBody) THEN [err |-> NoError, val |-> K.void]
  ELSE IF Truthy(Get(responseBody, K.ref)) THEN getSchemaNameFromRef(Get(responseBody, K.ref))
  ELSE IF IsStr(Get(responseBody, K.type), K.array)
          /\ Truthy(Get(Get(responseBody, K.items), K.ref))
    THEN LET ArrayOf(itemType) == [err |-> itemType.err, val |-> itemType.val \o K.brackets]
         IN  ArrayOf(getSchemaNameFromRef(Get(Get(responseBody, K.items), K.ref)))
  ELSE [err |-> NoError, val |-> toPascalCase(operationId) \o K.Response]

\* The nestedTypes.forEach of processSchemaType from index i on
RECURSIVE AddNestedTypes(_, _, _)
AddNestedTypes(nestedTypes, i, g) ==
  IF i > Len(nestedTypes) THEN g
  ELSE LET Add(nestedTypeName) ==
             IF nestedTypeName # <<>> /\ nestedTypeName \notin g.seen
               THEN [g EXCEPT !.seen = @ \cup {nestedTypeName},
                              !.allTypes = Append(@, nestedTypes[i])]
               ELSE g
       IN  AddNestedTypes(nestedTypes, i + 1, Add(NestedTypeName(nestedTypes[i])))

\* allTypes.push(mainInterface) and the nestedTypes.forEach that follows
\* it; r is what generateInterface returned
PushDeclarations(r, schema, typeName) ==
  IF r.g.err # NoError THEN r.g
  ELSE AddNestedTypes(r.g.nested, 1,
         NoteEnum([r.g EXCEPT !.allTypes = Append(@, r.code),
                              !.made = Append(@, <<typeName, r.code>>)],
                  schema, typeName))

\* The block below without its globalSeenTypes guard
ProcessUnguarded(schema, typeName, spec, g) ==
  PushDeclarations(generateInterface(typeName, schema, spec,
                                     [g EXCEPT !.seen = @ \cup {typeName}, !.nested = <<>>],
                                     TRUE, 1),
                   schema, typeName)

\* The guarded block of both branches of processSchemaType
ProcessNamedSchema(schema, typeName, spec, g) ==
  IF typeName \in g.seen THEN NoteEnum(g, schema, typeName)
  ELSE PushDeclarations(generateInterface(typeName, schema, spec,
                                          [g EXCEPT !.seen = @ \cup {typeName},
                                                    !.nested = <<>>],
                                          TRUE, 1),
                        schema, typeName)

\* Both branches of processSchemaType: resolvedSchema is the resolved node
\* of schema.$ref, or the schema itself when it has no $ref
ProcessResolved(resolvedSchema, typeName, spec, g) ==
  IF resolvedSchema.err # NoError THEN Throw(g, resolvedSchema.err)
  ELSE IF Truthy(resolvedSchema.val)
    THEN ProcessNamedSchema(resolvedSchema.val, typeName, spec, g)
  ELSE g

\* processSchemaType(schema, typeName, spec, allTypes)
processSchemaType(schema, typeName, spec, g) ==
  IF ~Truthy(schema) THEN g
  ELSE ProcessResolved(IF Truthy(Get(schema, K.ref))
                         THEN resolveRef(Get(schema, K.ref), spec)
                         ELSE [err |-> NoError, val |-> schema],
                       typeName, spec, g)

\* allTypes.push(paramInterface) of the parameter block
PushParams(typeName, paramInterface, g) ==
  [g EXCEPT !.seen = @ \cup {typeName},
            !.allTypes = Append(@, paramInterface),
            !.made = Append(@, <<typeName, paramInterface>>)]

\* The parameter block once the registry has answered with r
DeclareParams(params, r, g) ==
  IF r.name \in g.seen THEN [g EXCEPT !.parameterTypes = r.parameterTypes]
  ELSE PushParams(r.name, generateParamsInterface(params, r.name, TRUE),
                  [g EXCEPT !.parameterTypes = r.parameterTypes])

\* The parameter block of the first pass for one category of one operation
ProcessParams(params, paramType, fallbackName, g) ==
  IF Len(params) = 0 THEN g
  ELSE DeclareParams(params,
                     getReusableParamTypeName(params, paramType, fallbackName,
                                              g.parameterTypes),
                     g)

\* What a block of the first pass hands to processSchemaType: nothing
\* (skip), or a schema and the name to declare it under
SkipTarget == [err |-> NoError, skip |-> TRUE, schema |-> Undefined, typeName |-> <<>>]

Target(schema, typeName) ==
  [err |-> NoError, skip |-> FALSE, schema |-> schema, typeName |-> typeName]

\* The call of processSchemaType that ends the request block and the
\* response block; a throw before it ends the pass
ProcessTarget(target, spec, g) ==
  IF g.err # NoError THEN g
  ELSE IF target.err # NoError THEN Throw(g, target.err)
  ELSE IF target.skip THEN g
  ELSE processSchemaType(target.schema, target.typeName, spec, g)

\* The request block of the first pass up to its call of processSchemaType
RequestTarget(m, reqTypeName) ==
  IF reqTypeName.err # NoError THEN [SkipTarget EXCEPT !.err = reqTypeName.err]
  ELSE IF reqTypeName.val = K.void THEN SkipTarget
  ELSE Target(m.requestBody, reqTypeName.val)

\* The request block of the first pass
ProcessRequest(m, spec, g) ==
  ProcessTarget(RequestTarget(m, getRequestTypeName(m.requestBody, m.fnName)), spec, g)

\* The array branch of the response block: itemType is
\* getSchemaNameFromRef(ref), resolvedItem is resolveRef(ref, spec)
ArrayItemTarget(ref, itemType, resolvedItem) ==
  IF itemType.err # NoError THEN [SkipTarget EXCEPT !.err = itemType.err]
  ELSE IF resolvedItem.err # NoError THEN [SkipTarget EXCEPT !.err = resolvedItem.err]
  ELSE IF Truthy(resolvedItem.val) THEN Target(Obj(<<<<K.ref, ref>>>>), itemType.val)
  ELSE SkipTarget

\* resTypeName.endsWith('[]') ? resTypeName.slice(0, -2) : resTypeName
BaseTypeName(resTypeName) ==
  IF EndsWith(resTypeName, K.brackets)
    THEN SubSeq(resTypeName, 1, Len(resTypeName) - 2)
    ELSE resTypeName

\* The response block of the first pass up to its call of processSchemaType
ResponseTarget(responseBody, resTypeName, spec) ==
  IF resTypeName.err # NoError THEN [SkipTarget EXCEPT !.err = resTypeName.err]
  ELSE IF BaseTypeName(resTypeName.val) = K.void \/ ~Truthy(responseBody) THEN SkipTarget
  ELSE IF IsStr(Get(responseBody, K.type), K.array)
          /\ Truthy(Get(Get(responseBody, K.items), K.ref))
    THEN ArrayItemTarget(Get(Get(responseBody, K.items), K.ref),
                         getSchemaNameFromRef(Get(Get(responseBody, K.items), K.ref)),
                         resolveRef(Get(Get(responseBody, K.items), K.ref), spec))
  ELSE Target(responseBody, BaseTypeName(resTypeName.val))

\* The response block of the first pass
ProcessResponse(m, spec, g) ==
  ProcessTarget(ResponseTarget(m.responseBody,
                               getResponseTypeName(m.responseBody, m.fnName), spec),
                spec, g)

\* The body of the first pass for one operation: path parameters, query
\* parameters, request body, response body; a throw ends it
FirstPass(m, spec, g) ==
  ProcessResponse(m, spec,
    ProcessRequest(m, spec,
      ProcessParams(m.queryParams, K.query, toPascalCase(m.fnName) \o K.QueryParams,
        ProcessParams(m.pathParams, K.path, toPascalCase(m.fnName) \o K.PathParams, g))))

\* The loop that follows the first pass: every stored definition whose text
\* is not in allTypes yet is appended
RECURSIVE CollectDefinitions(_, _, _)
CollectDefinitions(defs, i, allTypes) ==
  IF i > Len(defs) THEN allTypes
  ELSE CollectDefinitions(defs, i + 1,
         IF Includes(allTypes, defs[i][2]) THEN allTypes ELSE Append(allTypes, defs[i][2]))

(***************************************************************************)
(* Emitter: one model file per declaration, and the index                  *)
(***************************************************************************)

PRIMITIVE_TYPES == <<<<"S","t","r","i","n","g">>, <<"N","u","m","b","e","r">>, <<"B","o","o","l","e","a","n">>, <<"A","r","r","a","y">>, <<"O","b","j","e","c","t">>>>

\* The maximal run of [a-zA-Z0-9] characters of code that starts at index i
AlnumRun(code, i) == IF i > Len(code) THEN <<>> ELSE SubSeq(code, i, RunEnd(code, i, "alnum") - 1)

\* <lead>\s*([A-Z][a-zA-Z0-9]*(?:\[])?) anchored at index i: the matched
\* name without the leading part and the brackets, and the index after the
\* match; name <<>> when there is no match
ReferenceAt(code, i, lead) ==
  LET Match(name, k) ==
        [name |-> name, next |-> IF OccursAt(code, k, K.brackets) THEN k + 2 ELSE k]
      Named(j, name) == Match(name, j + Len(name))
      From(j) ==
        IF code[i] = lead /\ j <= Len(code) /\ IsUpper(code[j])
          THEN Named(j, AlnumRun(code, j))
          ELSE [name |-> <<>>, next |-> i + 1]
  IN  From(SkipSpaces(code, i + 1))

\* The start of the leftmost match of the pattern at or after index i, or 0:
\* the next match of a global scan that has reached index i
NextReference(code, i, lead) ==
  LET at == {j \in i..Len(code) : ReferenceAt(code, j, lead).name # <<>>}
  IN  IF at = {} THEN 0 ELSE CHOOSE j \in at : \A k \in at : j <= k

\* typeCode.match(<global pattern>) from index i on, each match reduced to
\* its type name: the non-primitive names are added to the Set deps, which
\* keeps insertion order
RECURSIVE AddReferences(_, _, _, _)
AddReferences(code, i, lead, deps) ==
  LET Add(r) ==
        AddReferences(code, r.next, lead,
          IF ~Includes(PRIMITIVE_TYPES, r.name) /\ ~Includes(deps, r.name)
            THEN Append(deps, r.name)
            ELSE deps)
      From(j) == IF j = 0 THEN deps ELSE Add(ReferenceAt(code, j, lead))
  IN  From(NextReference(code, i, lead))

\* extractTypeDependencies(typeCode)
extractTypeDependencies(typeCode) ==
  AddReferences(typeCode, 1, "=", AddReferences(typeCode, 1, ":", <<>>))

\* typeCode.includes('export ')
IncludesText(code, text) == \E i \in DOMAIN code : OccursAt(code, i, text)

\* ensureExported that returns the text as it is
KeepAsRendered(typeCode) == typeCode

\* ensureExported(typeCode)
ensureExported(typeCode) ==
  IF IncludesText(typeCode, KW.export) THEN typeCode
  ELSE LET Replace(kw, rest) ==
             IF rest = Len(kw) + 1 THEN typeCode
             ELSE KW.export \o kw \o <<" ">> \o SubSeq(typeCode, rest, Len(typeCode))
           With(kw) == Replace(kw, SkipSpaces(typeCode, Len(kw) + 1))
           Among(ks) == IF ks = {} THEN typeCode ELSE With(DeclKeywords[CHOOSE k \in ks : TRUE])
       IN  Among({k \in DOMAIN DeclKeywords : OccursAt(typeCode, 1, DeclKeywords[k])})

\* typeCode.match(TYPE_DECLARATION)?.[1]
DeclaredName(typeCode) == DeclarationName(typeCode, FALSE)

\* The set allTypeNames built by the first loop of generateModelFiles
AllTypeNames(allTypes) ==
  {DeclaredName(allTypes[i]) : i \in DOMAIN allTypes} \ {<<>>}

\* Array.prototype.filter
RECURSIVE FilterIn(_, _)
FilterIn(s, keep) ==
  IF s = <<>> THEN <<>>
  ELSE (IF Head(s) \in keep THEN <<Head(s)>> ELSE <<>>) \o FilterIn(Tail(s), keep)

\* The second loop of generateModelFiles from index i on; files holds, per
\* written file, the declared name, the imported names in the order of the
\* import lines, and the declaration text
RECURSIVE WriteModelFiles(_, _, _, _)
WriteModelFiles(allTypes, allTypeNames, i, files) ==
  IF i > Len(allTypes) THEN files
  ELSE LET Write(typeName, exportedTypeCode) ==
             [typeName |-> typeName,
              imports |-> SortStrings(FilterIn(extractTypeDependencies(exportedTypeCode),
                                               allTypeNames)),
              code |-> exportedTypeCode]
           Visit(typeName) ==
             WriteModelFiles(allTypes, allTypeNames, i + 1,
               IF typeName = <<>> \/ \E k \in DOMAIN files : files[k].typeName = typeName
                 THEN files
                 ELSE Append(files, Write(typeName, ensureExported(allTypes[i]))))
       IN  Visit(DeclaredName(allTypes[i]))

\* generateModelFiles with the index lines left in the order the files were
\* written
UnsortedModelFiles(allTypes) ==
  LET Written(files) ==
        [files |-> files,
         modelExports |-> [k \in DOMAIN files |-> files[k].typeName]]
  IN  Written(WriteModelFiles(allTypes, AllTypeNames(allTypes), 1, <<>>))

\* generateModelFiles(allTypes, modelsDir): the model files written and the
\* names of the index file in the order of its export lines
generateModelFiles(allTypes) ==
  LET Written(files) ==
        [files |-> files,
         modelExports |-> SortStrings([k \in DOMAIN files |-> files[k].typeName])]
  IN  Written(WriteModelFiles(allTypes, AllTypeNames(allTypes), 1, <<>>))

(***************************************************************************)
(* The documents the generator is run on                                   *)
(***************************************************************************)

\* Names of schemas, properties, parameters and enum values of the documents
N == [
  Color |-> <<"C","o","l","o","r">>,
  User |-> <<"U","s","e","r">>,
  Node |-> <<"N","o","d","e">>,
  A |-> <<"A">>,
  B |-> <<"B">>,
  P |-> <<"P">>,
  Q |-> <<"Q">>,
  L1 |-> <<"L","1">>,
  L2 |-> <<"L","2">>,
  Bad |-> <<"B","a","d">>,
  Broken |-> <<"B","r","o","k","e","n">>,
  Missing |-> <<"M","i","s","s","i","n","g">>,
  Empty |-> <<"E","m","p","t","y">>,
  account |-> <<"a","c","c","o","u","n","t">>,
  Thing |-> <<"T","h","i","n","g">>,
  blob |-> <<"b","l","o","b">>,
  free |-> <<"f","r","e","e">>,
  files |-> <<"f","i","l","e","s">>,
  file |-> <<"f","i","l","e">>,
  Tally |-> <<"T","a","l","l","y">>,
  counts |-> <<"c","o","u","n","t","s">>,
  flags |-> <<"f","l","a","g","s">>,
  Swatch |-> <<"S","w","a","t","c","h">>,
  shades |-> <<"s","h","a","d","e","s">>,
  palette |-> <<"p","a","l","e","t","t","e">>,
  DARK |-> <<"D","A","R","K">>,
  Pair |-> <<"P","a","i","r">>,
  getPair |-> <<"g","e","t","P","a","i","r">>,
  Holder |-> <<"H","o","l","d","e","r">>,
  acct |-> <<"a","c","c","t">>,
  getHolder |-> <<"g","e","t","H","o","l","d","e","r">>,
  Ghost |-> <<"G","h","o","s","t">>,
  soul |-> <<"s","o","u","l">>,
  toString |-> <<"t","o","S","t","r","i","n","g">>,
  getGhost |-> <<"g","e","t","G","h","o","s","t">>,
  getNameless |-> <<"g","e","t","N","a","m","e","l","e","s","s">>,
  Mix |-> <<"M","i","x">>,
  both |-> <<"b","o","t","h">>,
  list |-> <<"l","i","s","t">>,
  obj |-> <<"o","b","j">>,
  arr |-> <<"a","r","r">>,
  Odd |-> <<"O","d","d">>,
  getMix |-> <<"g","e","t","M","i","x">>,
  getOdd |-> <<"g","e","t","O","d","d">>,
  getThing |-> <<"g","e","t","T","h","i","n","g">>,
  getTally |-> <<"g","e","t","T","a","l","l","y">>,
  getSwatch |-> <<"g","e","t","S","w","a","t","c","h">>,
  owner |-> <<"o","w","n","e","r">>,
  id |-> <<"i","d">>,
  status |-> <<"s","t","a","t","u","s">>,
  address |-> <<"a","d","d","r","e","s","s">>,
  city |-> <<"c","i","t","y">>,
  favorite |-> <<"f","a","v","o","r","i","t","e">>,
  next |-> <<"n","e","x","t">>,
  color |-> <<"c","o","l","o","r">>,
  a |-> <<"a">>,
  b |-> <<"b">>,
  q |-> <<"q">>,
  x |-> <<"x">>,
  name |-> <<"n","a","m","e">>,
  tags |-> <<"t","a","g","s">>,
  RED |-> <<"R","E","D">>,
  GREEN |-> <<"G","R","E","E","N">>,
  OK |-> <<"O","K">>,
  pageOpt |-> <<"p","a","g","e","?">>,
  limitOpt |-> <<"l","i","m","i","t","?">>,
  aOpt |-> <<"a","?">>,
  a1 |-> <<"a","1">>,
  c |-> <<"c">>,
  d |-> <<"d">>,
  getUser |-> <<"g","e","t","U","s","e","r">>,
  listUsers |-> <<"l","i","s","t","U","s","e","r","s">>,
  setColor |-> <<"s","e","t","C","o","l","o","r">>,
  getNode |-> <<"g","e","t","N","o","d","e">>,
  getA |-> <<"g","e","t","A">>,
  getP |-> <<"g","e","t","P">>,
  getL1 |-> <<"g","e","t","L","1">>,
  createUser |-> <<"c","r","e","a","t","e","U","s","e","r">>,
  getBroken |-> <<"g","e","t","B","r","o","k","e","n">>,
  getBad |-> <<"g","e","t","B","a","d">>,
  getEmpty |-> <<"g","e","t","E","m","p","t","y">>,
  getAccount |-> <<"g","e","t","A","c","c","o","u","n","t">>,
  search |-> <<"S","e","a","r","c","h","Q","u","e","r","y","P","a","r","a","m","s">>,
  find |-> <<"F","i","n","d","P","a","t","h","P","a","r","a","m","s">>,
  dash |-> <<"a","-","b">>,
  under |-> <<"a","_","b">>,
  suffixed |-> <<"a","_","b","_","1">>,
  blank |-> <<>>,
  digit |-> <<"1","x">> ]


SchemaRef(name) == <<"#","/","c","o","m","p","o","n","e","n","t","s","/","s","c","h","e","m","a","s","/">> \o name
RefTo(name) == Obj(<<<<K.ref, Str(SchemaRef(name))>>>>)
TypeOf(ty) == Obj(<<<<K.type, Str(ty)>>>>)
ObjectOf(props) == Obj(<<<<K.type, Str(K.object)>>, <<K.properties, Obj(props)>>>>)
ArrayOf(items) == Obj(<<<<K.type, Str(K.array)>>, <<K.items, items>>>>)
EnumOf(values) == Obj(<<<<K.type, Str(K.string)>>, <<K.enumKey, Arr(values)>>>>)

\* components.schemas of the document
Schemas ==
  << <<N.Color, EnumOf(<<Str(N.RED), Str(N.GREEN)>>)>>,
     <<N.User, Obj(<< <<K.type, Str(K.object)>>,
                      <<K.required, Arr(<<Str(N.id)>>)>>,
                      <<K.properties,
                        Obj(<< <<N.id, TypeOf(K.integer)>>,
                               <<N.status, EnumOf(<<Str(N.GREEN), Str(N.RED)>>)>>,
                               <<N.address, ObjectOf(<< <<N.city, TypeOf(K.string)>> >>)>>,
                               <<N.tags, ArrayOf(TypeOf(K.string))>>,
                               <<N.favorite, RefTo(N.Color)>> >>)>> >>)>>,
     <<N.Node, ObjectOf(<< <<N.next, RefTo(N.Node)>>, <<N.color, RefTo(N.Color)>> >>)>>,
     <<N.A, ObjectOf(<< <<N.b, RefTo(N.B)>> >>)>>,
     <<N.B, ObjectOf(<< <<N.a, RefTo(N.A)>> >>)>>,
     <<N.P, ObjectOf(<< <<N.q, RefTo(N.Q)>> >>)>>,
     <<N.Q, ArrayOf(RefTo(N.P))>>,
     <<N.L1, ArrayOf(RefTo(N.L2))>>,
     <<N.L2, ArrayOf(RefTo(N.L1))>>,
     <<N.Bad, EnumOf(<<Str(N.OK), Null>>)>>,
     <<N.Broken, ObjectOf(<< <<N.x, RefTo(N.Missing)>> >>)>>,
     <<N.Empty, Null>>,
     <<N.account, ObjectOf(<< <<N.owner, ObjectOf(<< <<N.name, TypeOf(K.string)>> >>)>> >>)>>,
     <<N.Thing, ObjectOf(<< <<N.blob, TypeOf(N.file)>>,
                            <<N.free, Obj(<< <<K.type, Str(K.array)>> >>)>>,
                            <<N.files, ArrayOf(TypeOf(N.file))>> >>)>>,
     <<N.Tally, ObjectOf(<< <<N.counts, ArrayOf(TypeOf(K.integer))>>,
                            <<N.flags, ArrayOf(TypeOf(K.boolean))>> >>)>>,
     <<N.Swatch, ObjectOf(<< <<N.shades, ArrayOf(EnumOf(<<Str(N.DARK)>>))>>,
                             <<N.palette, ArrayOf(RefTo(N.Color))>> >>)>>,
     <<N.Pair, ObjectOf(<< <<N.dash, ObjectOf(<< <<N.c, TypeOf(K.string)>> >>)>>,
                           <<N.under, ObjectOf(<< <<N.d, TypeOf(K.integer)>> >>)>> >>)>>,
     <<N.Holder, ObjectOf(<< <<N.acct, RefTo(N.account)>> >>)>>,
     <<N.Ghost, ObjectOf(<< <<N.soul, RefTo(N.toString)>> >>)>>,
     <<N.Mix, ObjectOf(<< <<N.both, Obj(<< <<K.ref, Str(SchemaRef(N.Color))>>,
                                           <<K.enumKey, Arr(<<Str(N.DARK)>>)>> >>)>>,
                          <<N.list, Obj(<< <<K.type, Str(K.array)>>,
                                           <<K.enumKey, Arr(<<Str(N.DARK)>>)>> >>)>>,
                          <<N.obj, Obj(<< <<K.type, Str(K.object)>>,
                                          <<K.enumKey, Arr(<<Str(N.OK)>>)>> >>)>>,
                          <<N.arr, Obj(<< <<K.type, Str(K.array)>>,
                                          <<K.items, TypeOf(K.string)>>,
                                          <<K.properties,
                                            Obj(<< <<N.c, TypeOf(K.string)>> >>)>> >>)>> >>)>>,
     <<N.Odd, ObjectOf(<< <<N.arr, Obj(<< <<K.type, Str(K.array)>>,
                                          <<K.items, RefTo(N.Empty)>>,
                                          <<K.properties,
                                            Obj(<< <<N.c, TypeOf(K.string)>> >>)>> >>)>> >>)>> >>

\* The parsed document (spec)
Document == Obj(<< <<K.components, Obj(<< <<K.schemas, Obj(Schemas)>> >>)>> >>)

\* One operation of the document as the first pass reads it (PathMethod)
Operation(fnName, pathParams, queryParams, requestBody, responseBody) ==
  [fnName |-> fnName, pathParams |-> pathParams, queryParams |-> queryParams,
   requestBody |-> requestBody, responseBody |-> responseBody]

\* The operations a document is assembled from
Operations ==
  << Operation(N.getUser, << <<N.id, K.string>> >>, <<>>, Undefined, RefTo(N.User)),
     Operation(N.listUsers, <<>>, << <<N.pageOpt, K.number>>, <<N.limitOpt, K.number>> >>,
               Undefined, ArrayOf(RefTo(N.User))),
     Operation(N.setColor, << <<N.id, K.string>> >>, <<>>, RefTo(N.Color), RefTo(N.Color)),
     Operation(N.getNode, << <<N.id, K.number>> >>, <<>>, Undefined, RefTo(N.Node)),
     Operation(N.getA, <<>>, <<>>, Undefined, RefTo(N.A)),
     Operation(N.getP, <<>>, <<>>, Undefined, RefTo(N.P)),
     Operation(N.getL1, <<>>, <<>>, Undefined, RefTo(N.L1)),
     Operation(N.createUser, <<>>, <<>>,
               ObjectOf(<< <<N.name, TypeOf(K.string)>>,
                           <<N.color, EnumOf(<<Str(N.GREEN), Str(N.RED)>>)>> >>),
               Undefined),
     Operation(N.getBroken, <<>>, <<>>, Undefined, RefTo(N.Broken)),
     Operation(N.getBad, <<>>, <<>>, Undefined, RefTo(N.Bad)),
     Operation(N.getAccount, <<>>, <<>>, Undefined, RefTo(N.account)),
     Operation(N.getThing, <<>>, <<>>, Undefined, RefTo(N.Thing)),
     Operation(N.getTally, <<>>, <<>>, Undefined, RefTo(N.Tally)),
     Operation(N.getSwatch, <<>>, <<>>, Undefined, RefTo(N.Swatch)),
     Operation(N.getPair, <<>>, <<>>, Undefined, RefTo(N.Pair)),
     Operation(N.getHolder, <<>>, <<>>, Undefined, RefTo(N.Holder)),
     Operation(N.getGhost, <<>>, <<>>, Undefined, RefTo(N.Ghost)),
     Operation(N.getNameless, <<>>, <<>>, Undefined, RefTo(<<>>)),
     Operation(N.getMix, <<>>, <<>>, Undefined, RefTo(N.Mix)),
     Operation(N.getOdd, <<>>, <<>>, Undefined, RefTo(N.Odd)),
     Operation(N.getEmpty, <<>>, <<>>, Undefined, RefTo(N.Empty)) >>

\* Most operations in one document
MaxMethods == 2

\* Most generation runs in one process
MaxRuns == 2

(***************************************************************************)
(* The generation run as a state machine                                   *)
(***************************************************************************)

VARIABLES
  methods,                  \* the operations of the document, in iteration order
  pc,                       \* "collect", "emit", "done" or "failed"
  methodIndex,              \* the operation the first pass is at
  run,                      \* the number of the generation run
  globalSeenTypes,          \* Set of names already materialized
  generatedTypeDefinitions, \* name -> declaration text, in insertion order
  enumValueHashToTypeName,  \* enum values hash -> name
  parameterTypes,           \* the parameter-type registry of the run
  allTypes,                 \* the declaration texts of the run
  error,                    \* the Error that ended the run, or NoError
  modelFiles,               \* the model files written
  modelExports,             \* the names exported by the index file
  made,                     \* history: <<name, text>> of every declaration the run created
  enumUses,                 \* history: <<value set, name>> of every enumeration resolved
  previous,                 \* history: the outcome of every finished run
  calls,                    \* history: the getReusableParamTypeName calls made directly
  enumSchema,               \* the schema handed to generateEnum
  enumResult,               \* what generateEnum returned or threw
  refPointer,               \* the pointer handed to resolveRef
  refResult                 \* what resolveRef returned or threw

runVars == <<methods, pc, methodIndex, run, globalSeenTypes, generatedTypeDefinitions,
             enumValueHashToTypeName, allTypes, error, modelFiles, modelExports,
             made, enumUses, previous>>
enumVars == <<enumSchema, enumResult>>
vars == <<runVars, parameterTypes, calls, enumVars, refPointer, refResult>>

\* All sequences over S of length at most n
SeqsUpTo(S, n) == UNION {[1..k -> S] : k \in 0..n}

\* The state of the generator module as the record the synthesizer threads
Generator ==
  [seen |-> globalSeenTypes, defs |-> generatedTypeDefinitions,
   hashes |-> enumValueHashToTypeName, nested |-> <<>>, made |-> made,
   enums |-> enumUses, err |-> NoError,
   allTypes |-> allTypes, parameterTypes |-> parameterTypes]

\* The state a fresh process starts a run in
FreshRun ==
  /\ pc = "collect"
  /\ methodIndex = 1
  /\ globalSeenTypes = {}
  /\ generatedTypeDefinitions = <<>>
  /\ enumValueHashToTypeName = <<>>
  /\ parameterTypes = <<>>
  /\ allTypes = <<>>
  /\ error = NoError
  /\ modelFiles = <<>>
  /\ modelExports = <<>>
  /\ made = <<>>
  /\ enumUses = {}

NoEnumCall == enumSchema = Undefined /\ enumResult = Undefined

Init ==
  /\ methods \in SeqsUpTo(DOMAIN Operations, MaxMethods)
  /\ run = 1
  /\ previous = <<>>
  /\ calls = <<>>
  /\ FreshRun
  /\ NoEnumCall
  /\ refPointer = Undefined
  /\ refResult = Undefined

\* A process that has not started on a document
Idle ==
  /\ methods = <<>>
  /\ run = 1
  /\ previous = <<>>
  /\ calls = <<>>
  /\ FreshRun

\* The operation at position i of the document
Method(i) == Operations[methods[i]]

\* One iteration of the first pass: the whole body of the loop for the next
\* operation; an Error thrown in it ends the run
ProcessMethod ==
  /\ pc = "collect"
  /\ methodIndex <= Len(methods)
  /\ LET Leave(g) ==
           /\ globalSeenTypes' = g.seen
           /\ generatedTypeDefinitions' = g.defs
           /\ enumValueHashToTypeName' = g.hashes
           /\ parameterTypes' = g.parameterTypes
           /\ allTypes' = g.allTypes
           /\ made' = g.made
           /\ enumUses' = g.enums
           /\ error' = g.err
           /\ pc' = IF g.err = NoError THEN "collect" ELSE "failed"
           /\ methodIndex' = IF g.err = NoError THEN methodIndex + 1 ELSE methodIndex
     IN  Leave(FirstPass(Method(methodIndex), Document, Generator))
  /\ UNCHANGED <<methods, run, modelFiles, modelExports, previous, calls, enumVars, refPointer, refResult>>

\* After the last operation: every stored definition not in allTypes yet is
\* appended
CollectGenerated ==
  /\ pc = "collect"
  /\ methodIndex > Len(methods)
  /\ allTypes' = CollectDefinitions(generatedTypeDefinitions, 1, allTypes)
  /\ pc' = "emit"
  /\ UNCHANGED <<methods, methodIndex, run, globalSeenTypes, generatedTypeDefinitions,
                 enumValueHashToTypeName, parameterTypes, error, modelFiles, modelExports,
                 made, enumUses, previous, calls, enumVars, refPointer, refResult>>

\* The model files and the index are written
GenerateModelFiles ==
  /\ pc = "emit"
  /\ LET Written(r) == modelFiles' = r.files /\ modelExports' = r.modelExports
     IN  Written(generateModelFiles(allTypes))
  /\ pc' = "done"
  /\ UNCHANGED <<methods, methodIndex, run, globalSeenTypes, generatedTypeDefinitions,
                 enumValueHashToTypeName, parameterTypes, allTypes, error, made, enumUses,
                 previous, calls, enumVars, refPointer, refResult>>

\* What a finished run leaves behind
Outcome ==
  [error |-> error, allTypes |-> allTypes, modelFiles |-> modelFiles,
   modelExports |-> modelExports]

\* A reset that forgets to clear enumValueHashToTypeName
ResetKeepingEnumHashes ==
  /\ pc \in {"done", "failed"}
  /\ run < MaxRuns
  /\ previous' = Append(previous, Outcome)
  /\ run' = run + 1
  /\ pc' = "collect"
  /\ methodIndex' = 1
  /\ globalSeenTypes' = {}
  /\ generatedTypeDefinitions' = <<>>
  /\ parameterTypes' = <<>>
  /\ allTypes' = <<>>
  /\ error' = NoError
  /\ modelFiles' = <<>>
  /\ modelExports' = <<>>
  /\ made' = <<>>
  /\ enumUses' = {}
  /\ UNCHANGED <<methods, calls, enumVars, refPointer, refResult, enumValueHashToTypeName>>

\* resetGeneratorState(), and the driver started again on the same document:
\* its allTypes and parameterTypes are new objects
ResetAndRerun ==
  /\ pc \in {"done", "failed"}
  /\ run < MaxRuns
  /\ previous' = Append(previous, Outcome)
  /\ run' = run + 1
  /\ pc' = "collect"
  /\ methodIndex' = 1
  /\ globalSeenTypes' = {}
  /\ generatedTypeDefinitions' = <<>>
  /\ enumValueHashToTypeName' = <<>>
  /\ parameterTypes' = <<>>
  /\ allTypes' = <<>>
  /\ error' = NoError
  /\ modelFiles' = <<>>
  /\ modelExports' = <<>>
  /\ made' = <<>>
  /\ enumUses' = {}
  /\ UNCHANGED <<methods, calls, enumVars, refPointer, refResult>>

Next == ProcessMethod \/ CollectGenerated \/ GenerateModelFiles \/ ResetAndRerun

Spec == Init /\ [][Next]_vars

\* The driver started again on the same document in the same process, with
\* no call of resetGeneratorState(): globalSeenTypes, the stored definitions
\* and the enum hash index of the module are as the run before left them;
\* allTypes and parameterTypes of the driver are new objects
RerunWithoutReset ==
  /\ pc \in {"done", "failed"}
  /\ run < MaxRuns
  /\ previous' = Append(previous, Outcome)
  /\ run' = run + 1
  /\ pc' = "collect"
  /\ methodIndex' = 1
  /\ parameterTypes' = <<>>
  /\ allTypes' = <<>>
  /\ error' = NoError
  /\ modelFiles' = <<>>
  /\ modelExports' = <<>>
  /\ made' = <<>>
  /\ enumUses' = {}
  /\ UNCHANGED <<methods, calls, enumVars, refPointer, refResult, globalSeenTypes,
                 generatedTypeDefinitions, enumValueHashToTypeName>>

NextNoReset == ProcessMethod \/ CollectGenerated \/ GenerateModelFiles \/ RerunWithoutReset

SpecNoReset == Init /\ [][NextNoReset]_vars

(***************************************************************************)
(* The parameter-type registry called directly                             *)
(***************************************************************************)

\* The parameter sets the registry is called with
ParamSets ==
  { << <<N.id, K.string>> >>,
    << <<N.id, K.number>> >>,
    << <<N.pageOpt, K.number>> >>,
    << <<N.id, K.string>>, <<N.name, K.string>> >>,
    << <<N.name, K.string>>, <<N.id, K.string>> >>,
    << <<N.aOpt, K.string>>, <<N.a1, K.string>> >>,
    << <<N.d, K.string>>, <<N.a, K.string>>, <<N.b, K.string>>, <<N.c, K.string>> >>,
    << <<N.c, K.number>>, <<N.a, K.number>>, <<N.b, K.number>> >> }

ParamCategories == {K.path, K.query}

FallbackNames == {N.search, N.find}

\* Most direct calls of the registry in one run
MaxCalls == 3

InitParam ==
  /\ Idle
  /\ NoEnumCall
  /\ refPointer = Undefined
  /\ refResult = Undefined

\* One call getReusableParamTypeName(params, paramType, fallbackName,
\* parameterTypes); `fresh` records that no entry had the signature
CallReusableParamTypeName ==
  /\ Len(calls) < MaxCalls
  /\ \E params \in ParamSets, paramType \in ParamCategories, fallbackName \in FallbackNames :
       LET Return(r, signature) ==
             /\ parameterTypes' = r.parameterTypes
             /\ calls' = Append(calls,
                  [params |-> params, paramType |-> paramType,
                   fallbackName |-> fallbackName, name |-> r.name,
                   fresh |-> \A i \in DOMAIN parameterTypes :
                               parameterTypes[i][2] # signature])
       IN  Return(getReusableParamTypeName(params, paramType, fallbackName, parameterTypes),
                  createParamSignature(params))
  /\ UNCHANGED <<runVars, enumVars, refPointer, refResult>>

SpecParam == InitParam /\ [][CallReusableParamTypeName]_vars

(***************************************************************************)
(* The enum synthesizer called directly                                    *)
(***************************************************************************)


\* The values an enum array is drawn from
EnumValuePool ==
  {Str(N.RED), Str(N.dash), Str(N.under), Str(N.suffixed), Str(N.blank), Num(1), Null, Undefined}

\* The entries an x-enum-varnames array is drawn from
VarNamePool == {Str(N.A), Str(N.digit)}

\* Longest enum array
MaxEnumLen == 3

\* Longest x-enum-varnames array
MaxVarNames == 2

\* The enum schemas: with and without x-enum-varnames
EnumSchemas ==
  {Obj(<< <<K.type, Str(K.string)>>, <<K.enumKey, Arr(values)>> >>) :
     values \in SeqsUpTo(EnumValuePool, MaxEnumLen)}
  \cup
  {Obj(<< <<K.type, Str(K.string)>>, <<K.enumKey, Arr(values)>>,
          <<K.varnames, Arr(names)>> >>) :
     values \in SeqsUpTo(EnumValuePool, MaxEnumLen),
     names \in SeqsUpTo(VarNamePool, MaxVarNames)}

InitEnum ==
  /\ Idle
  /\ refPointer = Undefined
  /\ refResult = Undefined
  /\ enumSchema \in EnumSchemas
  /\ enumResult = Undefined

\* One call generateEnum(name, schema, exportMain)
GenerateEnum ==
  /\ enumResult = Undefined
  /\ \E exportMain \in BOOLEAN : enumResult' = generateEnum(N.Color, enumSchema, exportMain)
  /\ UNCHANGED <<runVars, parameterTypes, calls, enumSchema, refPointer, refResult>>

SpecEnum == InitEnum /\ [][GenerateEnum]_vars

(***************************************************************************)
(* The reference resolver called directly                                  *)
(***************************************************************************)

\* Most path segments in one pointer
MaxSegments == 4

\* The values resolveRef is called with: pointers into the document, the
\* pointer with no segment, and values that are no pointer
Pointers ==
  {Str(<<"#", "/">> \o Join(segments, <<"/">>)) :
     segments \in SeqsUpTo(
       {K.components, K.schemas, N.Color, N.Empty, N.Missing, K.enumKey, <<"0">>, K.length,
        N.toString},
       MaxSegments) \ {<<>>}}
  \cup {Str(<<"#", "/">>), Str(<<>>), Str(K.components), Null, Num(1)}

InitResolve ==
  /\ Idle
  /\ NoEnumCall
  /\ refPointer \in Pointers
  /\ refResult = Undefined

\* One call resolveRef(ref, spec)
ResolveRef ==
  /\ refResult = Undefined
  /\ refResult' = resolveRef(refPointer, Document)
  /\ UNCHANGED <<runVars, parameterTypes, calls, enumVars, refPointer>>

SpecResolve == InitResolve /\ [][ResolveRef]_vars

(***************************************************************************)
(* Properties                                                              *)
(***************************************************************************)

\* C1: within one run, whatever operations were processed, no name is
\* created twice, the emitted declarations (allTypes, and the model files)
\* hold at most one declaration per name, each being the text created under
\* that name, and no stored definition differs from the text it was created
\* with.
C1_OneDeclarationPerName ==
  /\ \A i, j \in DOMAIN made : i # j => made[i][1] # made[j][1]
  /\ Cardinality({DeclaredName(allTypes[i]) : i \in DOMAIN allTypes}) = Len(allTypes)
  /\ \A i \in DOMAIN allTypes : <<DeclaredName(allTypes[i]), allTypes[i]>> \in Range(made)
  /\ \A i \in DOMAIN generatedTypeDefinitions : generatedTypeDefinitions[i] \in Range(made)
  /\ \A i, j \in DOMAIN modelFiles :
       i # j => modelFiles[i].typeName # modelFiles[j].typeName

\* A finished run of two operations with the same response schema, so that
\* every name of the second was already materialized by the first
C1_Witness ==
  /\ pc = "done"
  /\ Len(methods) = 2
  /\ Method(1).responseBody = Method(2).responseBody
  /\ Len(made) >= 2

\* C2: any two enumerations of the document with identical value sets,
\* inline or named, are resolved by the run to the same declaration name (so
\* one declaration exists for that value set).
C2_SameValuesSameName ==
  \A e1, e2 \in enumUses : e1[1] = e2[1] => e1[2] = e2[2]

\* The getUser operation alone has been processed: User holds an inline
\* status enumeration with the values of the named enumeration Color, which
\* it also references
C2_Witness ==
  /\ pc = "done"
  /\ Len(methods) = 1
  /\ Method(1).fnName = N.getUser

\* C3: whatever calls of getReusableParamTypeName were made in the run, any
\* two of them whose parameter sets hold the same (key, type) pairs returned
\* the same name.
C3_SamePairsSameName ==
  \A i, j \in DOMAIN calls :
    Range(calls[i].params) = Range(calls[j].params) => calls[i].name = calls[j].name

\* Two calls with the same pairs, with a call for another parameter set
\* between them
C3_Witness ==
  /\ Len(calls) = 3
  /\ Range(calls[1].params) = Range(calls[3].params)
  /\ Range(calls[1].params) # Range(calls[2].params)

\* The keys of a parameter set in ascending order: the permutation of the
\* keys in which no key is followed by a smaller one
KeysAscending(params) ==
  CHOOSE ks \in [1..Len(params) -> Range(Keys(params))] :
    /\ Range(ks) = Range(Keys(params))
    /\ \A i, j \in DOMAIN ks : i < j => StrLess(ks[i], ks[j])

\* C10: a call that finds no entry with the signature names the set by its
\* size: one parameter gives {Param}{Category}Params (id on the path gives
\* IdPathParams), two or three give the PascalCase names in ascending key
\* order followed by {Category}Params, four or more give fallbackName.
C10_NamedBySize ==
  \A i \in DOMAIN calls :
    LET c == calls[i]
        n == Len(c.params)
        ks == KeysAscending(c.params)
        suffix == toPascalCase(c.paramType) \o <<"P","a","r","a","m","s">>
    IN  c.fresh =>
          /\ n = 1 => c.name = toPascalCase(StripOptionalMark(ks[1])) \o suffix
          /\ n = 2 => c.name = toPascalCase(StripOptionalMark(ks[1]))
                                 \o toPascalCase(StripOptionalMark(ks[2])) \o suffix
          /\ n = 3 => c.name = toPascalCase(StripOptionalMark(ks[1]))
                                 \o toPascalCase(StripOptionalMark(ks[2]))
                                 \o toPascalCase(StripOptionalMark(ks[3])) \o suffix
          /\ n >= 4 => c.name = c.fallbackName
          /\ (c.params = << <<N.id, K.string>> >> /\ c.paramType = K.path)
               => c.name = <<"I","d","P","a","t","h","P","a","r","a","m","s">>

\* Three fresh calls: one parameter, three parameters not listed in
\* ascending order, and four parameters
C10_Witness ==
  /\ Len(calls) = 3
  /\ \A i \in DOMAIN calls : calls[i].fresh
  /\ Len(calls[1].params) = 1
  /\ Len(calls[2].params) = 3 /\ StrLess(calls[2].params[2][1], calls[2].params[1][1])
  /\ Len(calls[3].params) >= 4

\* The two-node reference cycles of the document: A and B are objects, P is
\* an object and Q an array of P, L1 and L2 are arrays of each other
Cycles == {<<N.A, N.B>>, <<N.P, N.Q>>, <<N.L1, N.L2>>}

\* The text the run created under `name`
TextOf(name) == made[CHOOSE i \in DOMAIN made : made[i][1] = name][2]

\* C4: a run whose only operation returns the first schema of a two-node
\* reference cycle ends without an Error, having created exactly two
\* declarations, one per schema of the cycle, each naming the other.
C4_TwoNodeCycle ==
  \A cyc \in Cycles :
    (/\ Len(methods) = 1
     /\ Method(1).responseBody = RefTo(cyc[1])
     /\ (pc = "failed" \/ methodIndex > 1))
    => /\ error = NoError
       /\ Len(made) = 2
       /\ {made[i][1] : i \in DOMAIN made} = {cyc[1], cyc[2]}
       /\ Includes(extractTypeDependencies(TextOf(cyc[1])), cyc[2])
       /\ Includes(extractTypeDependencies(TextOf(cyc[2])), cyc[1])

\* The run on the cycle of the objects A and B is finished
C4_Witness ==
  /\ pc = "done"
  /\ Len(methods) = 1
  /\ Method(1).responseBody = RefTo(N.A)
  /\ {made[i][1] : i \in DOMAIN made} = {N.A, N.B}

\* C5: no model file imports the name it declares: the dependencies
\* computed for a declaration never hold the declaration's own name.
C5_NoSelfDependency ==
  \A k \in DOMAIN modelFiles :
    ~Includes(modelFiles[k].imports, modelFiles[k].typeName)

\* The model files of a run that synthesized the self-referential schema Node
\* are written
C5_Witness ==
  /\ pc = "done"
  /\ \E k \in DOMAIN modelFiles : modelFiles[k].typeName = N.Node

\* C6: a run that follows a reset ends as the run before it did, with the
\* same declaration texts in the same sequence (and the same files, index
\* and Error); and the reset leaves globalSeenTypes, the stored definitions,
\* the enum hash index and the parameter-type registry empty.
C6_RerunAfterReset ==
  /\ (run >= 2 /\ pc \in {"done", "failed"}) => Outcome = previous[run - 1]
  /\ (run >= 2 /\ pc = "emit") => allTypes = previous[run - 1].allTypes
  /\ (run >= 2 /\ pc = "collect" /\ methodIndex = 1) =>
       /\ globalSeenTypes = {}
       /\ generatedTypeDefinitions = <<>>
       /\ enumValueHashToTypeName = <<>>
       /\ parameterTypes = <<>>

\* The second run is finished, on a document whose first run left an enum
\* hash, a parameter type and nested definitions behind
C6_Witness ==
  /\ run = 2
  /\ pc = "done"
  /\ enumValueHashToTypeName # <<>>
  /\ parameterTypes # <<>>
  /\ Len(generatedTypeDefinitions) >= 2
  /\ Len(previous[1].allTypes) >= 4

\* The enum array and the supplied names of the schema handed to generateEnum
EnumValues == Get(enumSchema, K.enumKey).v
SuppliedNames == Get(enumSchema, K.varnames)

\* C7: generateEnum on a value list that holds null or undefined, at any
\* index, throws the invalid-enum-value Error (wrapped with the enum's name
\* and the index) and returns no declaration text.
C7_NullValueRaises ==
  (/\ enumResult # Undefined
   /\ \E i \in DOMAIN EnumValues : EnumValues[i] \in {Null, Undefined})
  => /\ enumResult.err = "EnumGenerationFailed: InvalidEnumValue"
     /\ enumResult.code = <<>>

\* generateEnum was called on two values of which the second is null
C7_Witness ==
  /\ enumResult # Undefined
  /\ Len(EnumValues) = 2
  /\ EnumValues[1] = Str(N.RED)
  /\ EnumValues[2] = Null

\* The supplied names are usable: an array as long as the values, of
\* pairwise distinct identifiers
UsableNames ==
  /\ SuppliedNames.t = "array"
  /\ Len(SuppliedNames.v) = Len(EnumValues)
  /\ \A i \in DOMAIN SuppliedNames.v :
       /\ SuppliedNames.v[i].t = "string"
       /\ IsIdentifier(SuppliedNames.v[i].v)
       /\ \A j \in DOMAIN SuppliedNames.v : i # j => SuppliedNames.v[i] # SuppliedNames.v[j]

\* C8: when generateEnum returns, either the supplied names are usable and
\* every member key is the supplied name at its index, or they are not and
\* the member keys are those generateEnum gives the same values with no
\* names supplied.
C8_NamesAllOrNothing ==
  (enumResult # Undefined /\ enumResult.err = NoError) =>
    IF UsableNames
      THEN enumResult.keys = [i \in DOMAIN EnumValues |-> SuppliedNames.v[i].v]
      ELSE enumResult.keys = generateEnum(N.Color, EnumOf(EnumValues), TRUE).keys

\* generateEnum returned for two values with two supplied names of which the
\* second repeats the first
C8_Witness ==
  /\ enumResult # Undefined
  /\ enumResult.err = NoError
  /\ Len(EnumValues) = 2
  /\ SuppliedNames = Arr(<<Str(N.A), Str(N.A)>>)

\* The operations that reference the named enumeration Color: as request
\* and response body (setColor), as a property of the response schema
\* (getUser, getNode) or of its items (listUsers)
ColorOperations == {N.getUser, N.listUsers, N.setColor, N.getNode}

ColorDeclaration ==
  <<"e","x","p","o","r","t"," ","e","n","u","m"," ","C","o","l","o","r"," ","{","\n"," "," ","R","E","D"," ","="," ","'","R","E","D","'",",","\n"," "," ","G","R","E","E","N"," ","="," ","'","G","R","E","E","N","'","\n","}">>

\* C9: when two or more operations of a finished run reference the named
\* enumeration Color, the output holds exactly one declaration named Color,
\* with the members RED = 'RED' and GREEN = 'GREEN', in one model file.
C9_OneColorDeclaration ==
  (/\ pc = "done"
   /\ Cardinality({i \in DOMAIN methods : Method(i).fnName \in ColorOperations}) >= 2)
  => /\ Cardinality({i \in DOMAIN allTypes : DeclaredName(allTypes[i]) = N.Color}) = 1
     /\ \E i \in DOMAIN allTypes : allTypes[i] = ColorDeclaration
     /\ Cardinality({k \in DOMAIN modelFiles : modelFiles[k].typeName = N.Color}) = 1
     /\ \E k \in DOMAIN modelFiles : modelFiles[k].code = ColorDeclaration
     /\ Includes(modelExports, N.Color)

\* A finished run of two different operations that reference Color, one of
\* them as its request and response body
C9_Witness ==
  /\ pc = "done"
  /\ Len(methods) = 2
  /\ Method(1).fnName = N.getUser
  /\ Method(2).fnName = N.setColor

\* value is an inline object with declared properties: the kind of node the
\* object case of the type synthesizer is about
IsInlineObject(value) ==
  /\ value.t = "object"
  /\ ~Truthy(Get(value, K.ref))
  /\ ~HasEnum(value)
  /\ ~IsStr(Get(value, K.type), K.array)
  /\ Truthy(Get(value, K.properties))

\* <<N, p, object>> for every property p of a named object schema N of the
\* document whose value is an inline object with declared properties
NestedObjects ==
  UNION {{<<Schemas[i][1], e[1], e[2]>> :
            e \in {q \in Range(PropertyEntries(Schemas[i][2])) : IsInlineObject(q[2])}} :
         i \in {j \in DOMAIN Schemas : ~IsStr(Get(Schemas[j][2], K.type), K.array)}}

\* The names the run created declarations under
MadeNames == {made[i][1] : i \in DOMAIN made}

\* C11: in a finished run that declared the named object schema N, every
\* inline object with declared properties found as property p of N has
\* exactly one declaration, named N + PascalCase(p) + 'Item', that holds a
\* member for each of the object's own properties, and N's member p is typed
\* with that name.
C11_NestedObjectNamed ==
  \A t \in NestedObjects :
    (pc = "done" /\ t[1] \in MadeNames)
    => /\ Cardinality({i \in DOMAIN made :
                         made[i][1] = t[1] \o toPascalCase(t[2]) \o K.Item}) = 1
       /\ \A q \in Range(PropertyEntries(t[3])) :
            IncludesText(TextOf(t[1] \o toPascalCase(t[2]) \o K.Item),
                         <<"\n", " ", " ">> \o q[1])
       /\ \E mark \in {<<>>, <<"?">>} :
            IncludesText(TextOf(t[1]),
                         <<"\n", " ", " ">> \o t[2] \o mark \o <<":", " ">>
                           \o t[1] \o toPascalCase(t[2]) \o K.Item \o <<";">>)

\* A finished run on the schema account, whose property owner is an inline
\* object: the declaration of the nested object exists
C11_Witness ==
  /\ pc = "done"
  /\ Len(methods) = 1
  /\ Method(1).fnName = N.getAccount
  /\ N.account \in MadeNames
  /\ Len(made) = 2

\* The path segments of a pointer that starts with #/
PointerSegments(ref) == Split(SubSeq(ref.v, 3, Len(ref.v)), "/")

\* Whether `node` has the segment as a key of its own: a property the
\* document gives an object, or an element the document gives an array
HasSegment(node, segment) ==
  \/ node.t = "object" /\ \E i \in DOMAIN node.v : node.v[i][1] = segment
  \/ node.t = "array" /\ \E i \in DOMAIN node.v : NatToString(i - 1) = segment

\* The child of `node` under a segment it has
Child(node, segment) ==
  IF node.t = "object"
    THEN node.v[CHOOSE i \in DOMAIN node.v : node.v[i][1] = segment][2]
    ELSE node.v[CHOOSE i \in DOMAIN node.v : NatToString(i - 1) = segment]

\* The node the segments designate from `node` on; found is FALSE when a
\* segment is missing
RECURSIVE Designated(_, _)
Designated(node, segments) ==
  IF segments = <<>> THEN [found |-> TRUE, node |-> node]
  ELSE IF HasSegment(node, Head(segments))
    THEN Designated(Child(node, Head(segments)), Tail(segments))
  ELSE [found |-> FALSE, node |-> Undefined]

\* C12: resolveRef called with a pointer returns the node the pointer
\* designates when every segment exists in the document, and throws the
\* unresolved-reference Error when a segment is missing.
C12_ResolvesOrFails ==
  (/\ refResult # Undefined
   /\ refPointer.t = "string"
   /\ StartsWith(refPointer.v, <<"#", "/">>))
  => IF Designated(Document, PointerSegments(refPointer)).found
       THEN refResult = [err |-> NoError,
                         val |-> Designated(Document, PointerSegments(refPointer)).node]
       ELSE refResult = [err |-> "UnresolvedRef", val |-> Undefined]

\* resolveRef has returned for a pointer to a schema the document does not
\* have, named as a member every object inherits
C12_Witness ==
  /\ refPointer = Str(SchemaRef(N.toString))
  /\ refResult # Undefined

\* The declaration of `name` has a member line typing the property `key`
\* with `ty`
MemberTyped(name, key, ty) ==
  \E mark \in {<<>>, <<"?">>} :
    IncludesText(TextOf(name), <<"\n", " ", " ">> \o key \o mark \o <<":", " ">> \o ty \o <<";">>)

\* A schema node of none of the kinds reference, enum, array, object,
\* integer, number, string, boolean
UnrecognizedKind(node) ==
  /\ node.t = "object"
  /\ ~Truthy(Get(node, K.ref))
  /\ ~HasEnum(node)
  /\ ~Truthy(Get(node, K.properties))
  /\ \A ty \in {K.array, K.object, K.integer, K.number, K.string, K.boolean} :
       ~IsStr(Get(node, K.type), ty)

\* An array node whose items are missing or of unrecognized kind
UnrecognizedItems(node) ==
  /\ node.t = "object"
  /\ ~Truthy(Get(node, K.ref))
  /\ ~HasEnum(node)
  /\ IsStr(Get(node, K.type), K.array)
  /\ Get(node, K.items) = Undefined \/ UnrecognizedKind(Get(node, K.items))

\* The properties of the object schemas of the document: <<schema name,
\* property name, property node>>
SchemaProperties ==
  UNION {{<<Schemas[i][1], e[1], e[2]>> : e \in Range(PropertyEntries(Schemas[i][2]))} :
         i \in {j \in DOMAIN Schemas : ~IsStr(Get(Schemas[j][2], K.type), K.array)}}

\* C13: in a finished run, a property whose node has an unrecognized kind
\* is typed unknown in the declaration of its schema, and an array property
\* whose items are missing or of unrecognized kind is typed unknown[];
\* neither is typed with the any-type.
C13_UnknownNotAny ==
  \A t \in SchemaProperties :
    (pc = "done" /\ t[1] \in MadeNames)
    => /\ UnrecognizedKind(t[3]) => MemberTyped(t[1], t[2], K.unknown)
       /\ UnrecognizedItems(t[3]) => MemberTyped(t[1], t[2], K.unknown \o K.brackets)

\* A run of the operation that returns the schema with properties of
\* unrecognized kind has finished and declared the schema
C13_Witness ==
  /\ pc = "done"
  /\ Len(methods) = 1
  /\ Method(1).fnName = N.getThing
  /\ N.Thing \in MadeNames

\* The terminal name of the reference in the items of an array node
ItemsRefName(node) == getSchemaNameFromRef(Get(Get(node, K.items), K.ref)).val

\* An array node whose items are a reference
HasRefItems(node) ==
  /\ node.t = "object"
  /\ IsStr(Get(node, K.type), K.array)
  /\ Truthy(Get(Get(node, K.items), K.ref))

\* An array node whose items are an inline enum
HasEnumItems(node) ==
  /\ node.t = "object"
  /\ IsStr(Get(node, K.type), K.array)
  /\ ~Truthy(Get(Get(node, K.items), K.ref))
  /\ HasEnum(Get(node, K.items))

\* A declaration text from its opening brace on (the whole text when it has
\* none)
Members(text) ==
  IF \A i \in DOMAIN text : text[i] # "{" THEN text
  ELSE SubSeq(text, CHOOSE i \in DOMAIN text : text[i] = "{" /\ \A j \in 1..(i - 1) : text[j] # "{",
              Len(text))

\* The run created exactly one declaration named `name`
MadeOnce(name) == Cardinality({i \in DOMAIN made : made[i][1] = name}) = 1

\* No declaration of the run under another name has the members of `name`
NoCopyOf(name) ==
  \A i \in DOMAIN made : made[i][1] # name => Members(made[i][2]) # Members(TextOf(name))

\* The named array schemas of the document whose items are a reference
NamedRefArrays == {i \in DOMAIN Schemas : HasRefItems(Schemas[i][2])}

\* C14: in a finished run, an array property with reference items is typed
\* with the referenced schema's name followed by [], that schema being
\* declared once under that name; an array property with inline enum items
\* is typed with the name of an enum declaration of the run followed by [];
\* a named array schema with reference items is declared as an alias of the
\* referenced schema's name followed by [], and no declaration under
\* another name repeats the referenced schema.
C14_ArrayItemsMaterialized ==
  /\ \A t \in SchemaProperties :
       (pc = "done" /\ t[1] \in MadeNames)
       => /\ HasRefItems(t[3])
             => /\ MemberTyped(t[1], t[2], ItemsRefName(t[3]) \o K.brackets)
                /\ MadeOnce(ItemsRefName(t[3]))
                /\ NoCopyOf(ItemsRefName(t[3]))
          /\ HasEnumItems(t[3])
             => \E x \in MadeNames :
                  /\ IncludesText(TextOf(x), KW.enum \o x \o <<" ", "{">>)
                  /\ MemberTyped(t[1], t[2], x \o K.brackets)
  /\ \A i \in NamedRefArrays :
       (pc = "done" /\ Schemas[i][1] \in MadeNames)
       => /\ IncludesText(TextOf(Schemas[i][1]),
                          KW.type \o Schemas[i][1] \o <<" ", "=", " ">>
                            \o ItemsRefName(Schemas[i][2]) \o K.brackets \o <<";">>)
          /\ MadeOnce(ItemsRefName(Schemas[i][2]))
          /\ NoCopyOf(ItemsRefName(Schemas[i][2]))

\* A run of the operation that returns the schema with an array of inline
\* enum items and an array of references has finished and declared it
C14_Witness ==
  /\ pc = "done"
  /\ Len(methods) = 1
  /\ Method(1).fnName = N.getSwatch
  /\ N.Swatch \in MadeNames

\* An array node whose items are of the primitive kind `ty`
HasPrimitiveItems(node, ty) ==
  /\ node.t = "object"
  /\ ~Truthy(Get(node, K.ref))
  /\ ~HasEnum(node)
  /\ IsStr(Get(node, K.type), K.array)
  /\ ~Truthy(Get(Get(node, K.items), K.ref))
  /\ ~HasEnum(Get(node, K.items))
  /\ ~Truthy(Get(Get(node, K.items), K.properties))
  /\ IsStr(Get(Get(node, K.items), K.type), ty)

\* The type the primitive kinds are mapped to
MappedPrimitive(ty) == IF ty = K.integer THEN K.number ELSE ty

\* The names a run declares for a property whose type needs no
\* declaration: none ends with the PascalCase property name, with or
\* without Item
NoneMadeFor(name, key) ==
  \A x \in MadeNames :
    /\ ~EndsWith(x, toPascalCase(key))
    /\ ~EndsWith(x, toPascalCase(key) \o K.Item)

\* C15: in a finished run, an array property whose items are primitive is
\* typed with the mapped primitive type followed by [] (number[] for
\* integer and number items, string[] for string, boolean[] for boolean),
\* and no declaration is created for it.
C15_PrimitiveItemsMapped ==
  \A t \in SchemaProperties :
    \A ty \in {K.integer, K.number, K.string, K.boolean} :
      (pc = "done" /\ t[1] \in MadeNames /\ HasPrimitiveItems(t[3], ty))
      => /\ MemberTyped(t[1], t[2], MappedPrimitive(ty) \o K.brackets)
         /\ NoneMadeFor(t[1], t[2])

\* A run of the operation that returns the schema with an array of integers
\* and an array of booleans has finished and declared it
C15_Witness ==
  /\ pc = "done"
  /\ Len(methods) = 1
  /\ Method(1).fnName = N.getTally
  /\ N.Tally \in MadeNames

\* C16: in a finished run, two inline objects of different shape, at
\* different paths of the document, are never typed with the same
\* declaration name.
C16_NoSharedName ==
  \A t1, t2 \in NestedObjects :
    (/\ pc = "done"
     /\ t1[1] \in MadeNames
     /\ t2[1] \in MadeNames
     /\ <<t1[1], t1[2]>> # <<t2[1], t2[2]>>
     /\ t1[3] # t2[3])
    => ~\E x \in MadeNames : MemberTyped(t1[1], t1[2], x) /\ MemberTyped(t2[1], t2[2], x)

\* A run of the operation that returns the schema with the inline objects
\* a-b and a_b has finished and declared it
C16_Witness ==
  /\ pc = "done"
  /\ Len(methods) = 1
  /\ Method(1).fnName = N.getPair
  /\ N.Pair \in MadeNames

\* C17: in a finished run, the names of the index file are the names of the
\* declarations the run created, each name once and in ascending order, and
\* every name of the index has one model file, which holds the declaration
\* created under that name.
C17_IndexExportsAll ==
  pc = "done"
  => /\ Range(modelExports) = MadeNames
     /\ \A i, j \in DOMAIN modelExports :
          i < j => StrLess(modelExports[i], modelExports[j])
     /\ \A i \in DOMAIN modelExports :
          /\ Cardinality({k \in DOMAIN modelFiles :
                            modelFiles[k].typeName = modelExports[i]}) = 1
          /\ \A k \in DOMAIN modelFiles :
               modelFiles[k].typeName = modelExports[i]
               => EndsWith(modelFiles[k].code, TextOf(modelExports[i]))

\* The index of a run of two operations is written, with five names or more
C17_Witness ==
  /\ pc = "done"
  /\ Len(methods) = 2
  /\ Len(modelExports) >= 5

\* The declaration text has the name x, or x[], in a property type position
\* or on the right-hand side of an alias
NamesType(text, x) ==
  \E lead \in {<<":", " ">>, <<"=", " ">>} :
    \E suffix \in {<<>>, K.brackets} :
      IncludesText(text, lead \o x \o suffix \o <<";">>)

\* C18: in a finished run, the imports of every model file are the names of
\* the run's declarations that the file's declaration names in a property
\* type position or as an alias right-hand side, each once and in ascending
\* order; a scalar or library type name is never imported, and every
\* imported name has a model file.
C18_ImportsAreDependencies ==
  pc = "done"
  => \A k \in DOMAIN modelFiles :
       /\ Range(modelFiles[k].imports)
            = {x \in MadeNames : NamesType(TextOf(modelFiles[k].typeName), x)}
       /\ \A i, j \in DOMAIN modelFiles[k].imports :
            i < j => StrLess(modelFiles[k].imports[i], modelFiles[k].imports[j])
       /\ \A i \in DOMAIN modelFiles[k].imports :
            \E f \in DOMAIN modelFiles : modelFiles[f].typeName = modelFiles[k].imports[i]

\* The model files of a run of the operation that returns the schema with a
\* property referencing the schema account are written
C18_Witness ==
  /\ pc = "done"
  /\ Len(methods) = 1
  /\ Method(1).fnName = N.getHolder
  /\ \E k \in DOMAIN modelFiles : modelFiles[k].typeName = N.Holder
  /\ \E k \in DOMAIN modelFiles : modelFiles[k].typeName = N.account

\* The operations whose response cannot be synthesized: getBroken returns a
\* schema with a property referencing a schema the document does not have,
\* getGhost one with a property referencing the missing schema toString,
\* getNameless references a pointer with no terminal name, getBad returns
\* an enum with a null value
FaultyOperations == {N.getBroken, N.getGhost, N.getNameless, N.getBad}

\* C19: the first pass does not get past an operation whose response holds
\* an unresolvable reference, a pointer with no terminal name or an enum
\* with a null value: the run ends with the Error at that operation, and no
\* model file and no index is written.
C19_ErrorsHaltRun ==
  /\ \A i \in DOMAIN methods :
       (Method(i).fnName \in FaultyOperations /\ (i < methodIndex \/ pc \in {"emit", "done"}))
       => FALSE
  /\ pc = "failed"
     => /\ error # NoError
        /\ modelFiles = <<>>
        /\ modelExports = <<>>

\* The first pass has ended with the Error of an unresolved reference
C19_Witness ==
  /\ pc = "failed"
  /\ error = "UnresolvedRef"
  /\ Method(methodIndex).fnName = N.getBroken

\* C20: no generation run recurses beyond every bound: whatever reference
\* cycles the returned schemas are part of, the run never ends with the
\* call stack exhausted.
C20_BoundedRecursion == error # "StackOverflow"

\* The run of the operation that returns L1, an array schema whose items
\* reference the array schema L2, whose items reference L1, has ended
C20_Witness ==
  /\ pc = "failed"
  /\ Len(methods) = 1
  /\ Method(1).fnName = N.getL1

\* The operations whose response schema is part of a reference cycle that
\* runs through an object: Node references itself, A and B each other, and
\* P the array schema Q whose items reference P
ObjectCycleOperations == {N.getNode, N.getA, N.getP}

EnumNamesMade ==
  {made[i][1] : i \in {j \in DOMAIN made :
                         IncludesText(made[j][2], KW.enum \o made[j][1] \o <<" ", "{">>)}}

\* C22: every enum declaration the run has created has its name in
\* globalSeenTypes, and enumValueHashToTypeName maps a values hash to that
\* name, whether the enum was an inline property, was reached through a
\* reference or was a request or response schema.
C22_EnumsIndexed ==
  \A x \in EnumNamesMade :
    /\ x \in globalSeenTypes
    /\ \E h \in DOMAIN enumValueHashToTypeName : enumValueHashToTypeName[h] = x

\* The first pass is past the operation setColor, whose request and response
\* are the named enum Color
C22_Witness ==
  /\ Len(methods) = 1
  /\ Method(1).fnName = N.setColor
  /\ methodIndex = 2
  /\ N.Color \in EnumNamesMade

\* The name of the nested declaration an object or array-item object at
\* the property t[2] of the schema t[1] would get
ItemNameOf(t) == toPascalCase(t[1] \o toPascalCase(t[2]) \o K.Item)

\* C23: in a finished run, a property that carries a reference and enum
\* values is typed with the referenced schema's name and no enum is declared
\* for it; a property with enum values and the kind array or object is typed
\* with an enum declaration; a property of kind array that also has
\* properties is typed as an array of its items, and no object declaration
\* is created for it.
C23_FirstMatchWins ==
  \A t \in SchemaProperties :
    (pc = "done" /\ t[1] \in MadeNames)
    => /\ (Truthy(Get(t[3], K.ref)) /\ HasEnum(t[3]))
          => /\ MemberTyped(t[1], t[2], getSchemaNameFromRef(Get(t[3], K.ref)).val)
             /\ t[1] \o toPascalCase(t[2]) \notin MadeNames
       /\ (~Truthy(Get(t[3], K.ref)) /\ HasEnum(t[3])
           /\ (IsStr(Get(t[3], K.type), K.array) \/ IsStr(Get(t[3], K.type), K.object)))
          => \E x \in EnumNamesMade : MemberTyped(t[1], t[2], x)
       /\ (~Truthy(Get(t[3], K.ref)) /\ ~HasEnum(t[3])
           /\ IsStr(Get(t[3], K.type), K.array) /\ Truthy(Get(t[3], K.properties)))
          => /\ ItemNameOf(t) \notin MadeNames
             /\ ~MemberTyped(t[1], t[2], ItemNameOf(t))
             /\ IsStr(Get(Get(t[3], K.items), K.type), K.string)
                => MemberTyped(t[1], t[2], K.string \o K.brackets)

\* A run of the operation that returns the schema whose properties match
\* more than one rule has finished and declared it
C23_Witness ==
  /\ pc = "done"
  /\ Len(methods) = 1
  /\ Method(1).fnName = N.getMix
  /\ N.Mix \in MadeNames

\* C24 as stated: in a finished run, the text of every model file is the
\* text the synthesizer created under the file's name, character for
\* character, nested declarations included.
C24_TextUnchanged ==
  pc = "done"
  => \A k \in DOMAIN modelFiles : modelFiles[k].code = TextOf(modelFiles[k].typeName)

\* C24 amended: in a finished run, the text of every model file is the text
\* the synthesizer created under the file's name, with `export ` put in
\* front when that text holds no `export `; nothing else is changed.
C24_TextExported ==
  pc = "done"
  => \A k \in DOMAIN modelFiles :
       modelFiles[k].code
         = (IF IncludesText(TextOf(modelFiles[k].typeName), KW.export) THEN <<>> ELSE KW.export)
             \o TextOf(modelFiles[k].typeName)

\* The model files of a run that synthesized a nested declaration without
\* `export ` are written
C24_Witness ==
  /\ pc = "done"
  /\ \E k \in DOMAIN modelFiles :
       ~IncludesText(TextOf(modelFiles[k].typeName), KW.export)

\* The names of the declarations the earlier runs of the process handed to
\* the emitter
EarlierNames ==
  UNION {{DeclaredName(previous[r].allTypes[i]) : i \in DOMAIN previous[r].allTypes} :
         r \in DOMAIN previous}

OnFallbackPath ==
  /\ enumResult # Undefined
  /\ enumResult.err = NoError
  /\ ~UsableNames

\* C26: the member keys of an enum declaration synthesized from its values
\* are pairwise distinct identifiers, one per value; the key of a value that
\* sanitizes to nothing starts with the placeholder VALUE.
C26_KeysDistinctIdentifiers ==
  OnFallbackPath =>
    /\ Len(enumResult.keys) = Len(EnumValues)
    /\ \A i \in DOMAIN enumResult.keys :
         /\ IsIdentifier(enumResult.keys[i])
         /\ \A j \in DOMAIN enumResult.keys : i # j => enumResult.keys[i] # enumResult.keys[j]
         /\ EnumValues[i] = Str(N.blank) =>
              SubSeq(enumResult.keys[i], 1, 5) = <<"V","A","L","U","E">>

\* generateEnum returned for the values a-b, a_b, a_b_1: the second key is
\* a_b_1, so the third value's sanitized form is already taken and its key
\* is a_b_1_1
C26_Witness ==
  /\ OnFallbackPath
  /\ EnumValues = <<Str(N.dash), Str(N.under), Str(N.suffixed)>>
  /\ enumResult.keys = <<N.under, N.suffixed, N.suffixed \o <<"_","1">> >>

\* The name getReusableParamTypeName returns to the path block of the first
\* pass for the operation the pass is at
PathParamsName ==
  getReusableParamTypeName(Method(methodIndex).pathParams, K.path,
                           toPascalCase(Method(methodIndex).fnName) \o K.PathParams,
                           parameterTypes).name

\* The name it returns to the query block that follows
QueryParamsName ==
  getReusableParamTypeName(
    Method(methodIndex).queryParams, K.query,
    toPascalCase(Method(methodIndex).fnName) \o K.QueryParams,
    IF Len(Method(methodIndex).pathParams) = 0 THEN parameterTypes
    ELSE getReusableParamTypeName(Method(methodIndex).pathParams, K.path,
                                  toPascalCase(Method(methodIndex).fnName) \o K.PathParams,
                                  parameterTypes).parameterTypes).name

\* After the step, the run has one declaration named `name` and its text is
\* the interface with exactly the members of `params`
DeclaredAs(params, name) ==
  /\ \E i \in DOMAIN made' : made'[i][1] = name
  /\ \A i \in DOMAIN made' :
       made'[i][1] = name => made'[i][2] = generateParamsInterface(params, name, TRUE)

\* C27: when the first pass has processed an operation, the declaration of
\* the run under the name getReusableParamTypeName returned for the
\* operation's path (query) parameter set has exactly that set's members.
C27_DeclaredWithOwnMembers ==
  [][(pc = "collect" /\ methodIndex <= Len(methods) /\ methodIndex' = methodIndex + 1)
     => /\ Len(Method(methodIndex).pathParams) > 0
             => DeclaredAs(Method(methodIndex).pathParams, PathParamsName)
        /\ Len(Method(methodIndex).queryParams) > 0
             => DeclaredAs(Method(methodIndex).queryParams, QueryParamsName)]_vars

\* The first pass has processed getUser (path id: string) and then getNode
\* (path id: number); the run's one parameter declaration is IdPathParams
C27_Witness ==
  /\ Len(methods) = 2
  /\ Method(1).fnName = N.getUser
  /\ Method(2).fnName = N.getNode
  /\ methodIndex = 3
  /\ Cardinality({i \in DOMAIN made : made[i][1] = toPascalCase(N.id) \o K.PathParams}) = 1

\* C28: every name in globalSeenTypes has a declaration made in the run,
\* also after a synthesis that ended with an Error.
C28_SeenNamesDeclared ==
  \A name \in globalSeenTypes : name \in MadeNames

\* The first pass ended with the invalid-enum-value Error at getBad, whose
\* response refers to the schema Bad
C28_Witness ==
  /\ pc = "failed"
  /\ error = "EnumGenerationFailed: InvalidEnumValue"
  /\ Method(methodIndex).fnName = N.getBad

\* The names the first pass was handed for the operations of the run: the
\* request type name, the response type name without its [], and the
\* parameter type names
ReturnedNames ==
  ({getRequestTypeName(Method(i).requestBody, Method(i).fnName).val : i \in DOMAIN methods}
     \cup {BaseTypeName(getResponseTypeName(Method(i).responseBody, Method(i).fnName).val) :
             i \in DOMAIN methods}
     \cup {parameterTypes[i][1] : i \in DOMAIN parameterTypes})
  \ {K.void}

\* The names of the model files of the run
EmittedNames == {modelFiles[k].typeName : k \in DOMAIN modelFiles}

\* The names a declaration can have in the run: the schema names of the
\* document, the names the synthesizer has seen, and the returned names
DeclarationNames ==
  {Schemas[i][1] : i \in DOMAIN Schemas} \cup globalSeenTypes \cup ReturnedNames

\* C29: when a run ends without an Error, every declaration name that a
\* model file names as the type of a member or of an alias, and every name
\* returned to the first pass as a request, response or parameter type
\* name, has a model file.
C29_ClosedUnderReference ==
  (pc = "done" /\ error = NoError)
  => \A x \in DeclarationNames :
       (x \in ReturnedNames \/ \E k \in DOMAIN modelFiles : NamesType(modelFiles[k].code, x))
       => x \in EmittedNames

\* A run on the operation getEmpty, whose response refers to the schema
\* Empty that the document leaves null, has ended without an Error
C29_Witness ==
  /\ pc = "done"
  /\ error = NoError
  /\ Len(methods) = 1
  /\ Method(1).fnName = N.getEmpty
  /\ N.Empty \in ReturnedNames

\* C30: the name every call of getReusableParamTypeName returned is the
\* call's fallbackName or ends with the PascalCase category followed by
\* Params.
C30_NamedForOwnCategory ==
  \A i \in DOMAIN calls :
    \/ calls[i].name = calls[i].fallbackName
    \/ EndsWith(calls[i].name, toPascalCase(calls[i].paramType) \o K.Params)

\* The set {id: string} was named as a path parameter set and then looked up
\* as a query parameter set
C30_Witness ==
  /\ Len(calls) = 2
  /\ calls[1].params = << <<N.id, K.string>> >>
  /\ calls[2].params = << <<N.id, K.string>> >>
  /\ calls[1].paramType = K.path
  /\ calls[2].paramType = K.query
  /\ calls[2].name = toPascalCase(N.id) \o K.PathParams

=============================================================================
